---- MODULE Spec2Model ----
(***************************************************************************)
(* Model of the Mix Space publishing plugin for Obsidian: the frontmatter   *)
(* of the active document, the publish / delete / unlink commands of        *)
(* src/src/main.ts, the payload builder of src/src/utils/payload.ts, the    *)
(* backlink resolver of src/src/utils/backlinks.ts and the remote client    *)
(* of src/unnamed/part_008.                                                *)
(***************************************************************************)
EXTENDS Integers, Sequences, FiniteSets, TLC

\* ------------------------------------------------------------------------
\* Frontmatter values, as parseFrontmatter hands them to the plugin.
\* A key that is not in the map reads as undefined (Absent); `key: ""`
\* parses to the empty string; `key:` with nothing after the colon parses
\* to an empty array (EmptyList); everything else here is a non-empty string.

Absent == "~undefined"

EmptyStr == ""

EmptyList == "~[]"

\* JavaScript truthiness of a frontmatter value: undefined and '' are falsy,
\* an array (also an empty one) and a non-empty string are truthy.
Truthy(v) == v \notin {Absent, EmptyStr}

\* A value that is an identifier or name: a non-empty string.
IsText(v) == v \notin {Absent, EmptyStr, EmptyList}

\* ------------------------------------------------------------------------
\* Bounds of the model.

\* Largest number of [[...]] references in a document body.
MaxLinks == 1

\* Largest number of [[...]] references in a text given to convertBacklinks
\* on its own.
MaxRefs == 2

\* Largest number of characters after the head of a document given to
\* parseFrontmatter.
MaxTail == 4

\* Largest number of characters of a body given to
\* stripFirstH1IfMatchesTitle.
MaxBody == 6

\* Largest number of characters of a title given to generateSlug.
MaxTitle == 4

\* Largest number of letters at the start of a text the AI model returns,
\* and largest number of further characters after them.
MaxPad == 52

MaxSlugTail == 3

\* Largest number of Delete clicks followed in one confirmation dialog.
MaxDeleteTries == 2

\* ------------------------------------------------------------------------
\* Remote categories.

Cat(id, name, slug) == [id |-> id, name |-> name, slug |-> slug]

\* The category list of the remote service used by the command model: the
\* value "tech" is the name of the first category and the slug of the second.
RemoteCategories == << Cat("c2", "tech", "t"), Cat("c1", "Tech", "tech") >>

\* What one api.getCategories() request can return against the remote list
\* `remote`: the list, or [] when the request failed (the catch branch).
GetCategories(remote) == { remote, << >> }

\* Array.prototype.find on a category list, by a predicate given as the set
\* of indexes that satisfy it: the first such element, or "none".
FirstIndex(S) == CHOOSE i \in S : \A j \in S : i <= j

FindBySlug(cats, value) == { i \in 1..Len(cats) : cats[i].slug = value }

FindByName(cats, value) == { i \in 1..Len(cats) : cats[i].name = value }

FindById(cats, value) == { i \in 1..Len(cats) : cats[i].id = value }

NoCategory == Cat(Absent, Absent, Absent)

\* A lookup that tries the name before the slug.
GetCategoryByNameThenSlug(cats, value) ==
  IF FindByName(cats, value) # {} THEN cats[FirstIndex(FindByName(cats, value))]
  ELSE IF FindBySlug(cats, value) # {} THEN cats[FirstIndex(FindBySlug(cats, value))]
  ELSE NoCategory

\* api.getCategoryByNameOrSlug(value) on the list its getCategories() call
\* returned: the first slug match, else the first name match, else null.
GetCategoryByNameOrSlug(cats, value) ==
  IF FindBySlug(cats, value) # {} THEN cats[FirstIndex(FindBySlug(cats, value))]
  ELSE IF FindByName(cats, value) # {} THEN cats[FirstIndex(FindByName(cats, value))]
  ELSE NoCategory

\* ------------------------------------------------------------------------
\* Frontmatter maps.

\* frontmatter.key of a JavaScript object: undefined for a key it lacks.
Get(f, k) == IF k \in DOMAIN f THEN f[k] ELSE Absent

\* ------------------------------------------------------------------------
\* Content type.

\* A classifier that looks at the category fields before the type field.
DetectContentTypeCategoryFirst(f) ==
  IF Truthy(Get(f, "categories")) \/ Truthy(Get(f, "categoryId")) THEN "post"
  ELSE IF Get(f, "type") = "post" THEN "post"
  ELSE "note"

\* detectContentType(frontmatter): explicit type, then category fields, then
\* note fields, then the default.
DetectContentType(f) ==
  IF Get(f, "type") = "post" THEN "post"
  ELSE IF Get(f, "type") = "note" THEN "note"
  ELSE IF Truthy(Get(f, "categories")) \/ Truthy(Get(f, "categoryId")) THEN "post"
  ELSE IF Truthy(Get(f, "mood")) \/ Truthy(Get(f, "weather")) \/ Truthy(Get(f, "topicId"))
       THEN "note"
  ELSE "note"

\* ------------------------------------------------------------------------
\* Post payload.

\* generateSlug(file.basename) for the file of the command model.
FileSlug == "my-post"

RECURSIVE JoinCategories(_)
\* allCategories.map(c => `${c.name}(${c.slug})`).join(', '), as the pieces
\* of the resulting string; the empty string is << >>.
JoinCategories(cats) ==
  IF cats = << >> THEN << >>
  ELSE IF Len(cats) = 1 THEN << cats[1].name, "(", cats[1].slug, ")" >>
  ELSE << cats[1].name, "(", cats[1].slug, ")", ", " >> \o JoinCategories(Tail(cats))

\* An error text without the 'none' fallback.
AvailableTextNoFallback(cats) == JoinCategories(cats)

\* `${available || 'none'}`
AvailableText(cats) ==
  IF JoinCategories(cats) = << >> THEN << "none" >> ELSE JoinCategories(cats)

NoError == [kind |-> "none", value |-> Absent, available |-> << >>]

Thrown(kind, value, available) ==
  [ok |-> FALSE, categoryId |-> Absent, slug |-> Absent,
   error |-> [kind |-> kind, value |-> value, available |-> available]]

\* A payload builder that sets the frontmatter categoryId aside when a
\* categories value is given.
DirectCategoryIdUnlessCategories(f) ==
  IF Truthy(Get(f, "categories")) THEN Absent ELSE Get(f, "categoryId")

\* The categoryId buildPostPayload takes from the frontmatter before it
\* looks at the categories field (payload.ts line 90).
DirectCategoryId(f) == Get(f, "categoryId")

\* buildPostPayload(frontmatter, body, fileName, api), its category and slug
\* part. lookup is what the getCategories() request inside
\* getCategoryByNameOrSlug returned, listing what the second getCategories()
\* request (made for the error message) returned.
BuildPostPayload(f, lookup, listing) ==
  LET direct == DirectCategoryId(f)
      viaName == ~Truthy(direct) /\ Truthy(Get(f, "categories"))
      category == GetCategoryByNameOrSlug(lookup, Get(f, "categories"))
      categoryId == IF viaName THEN category.id ELSE direct
  IN  IF viaName /\ category = NoCategory
        THEN Thrown("CategoryNotFound", Get(f, "categories"), AvailableText(listing))
      ELSE IF ~Truthy(categoryId)
        THEN Thrown("MissingCategory", Absent, << >>)
      ELSE [ok |-> TRUE, categoryId |-> categoryId,
            slug |-> IF Truthy(Get(f, "slug")) THEN Get(f, "slug") ELSE FileSlug,
            error |-> NoError]

\* ------------------------------------------------------------------------
\* Backlinks.

\* The vault's other markdown files, by the name a [[...]] reference uses:
\* whether findFileByName finds a file, and the frontmatter parsed from it.
Targets ==
  {"Note A", "Draft", "Ghost", "Post P", "Post N", "Post I", "Post M",
   "Post S", "Note 0", "Blank"}

TargetExists(name) == name # "Ghost"

TargetFrontmatter(name) ==
  IF name = "Note A" THEN [oid |-> "x1", id |-> "42"]
  ELSE IF name = "Post P" THEN [oid |-> "x2", categories |-> "tech", slug |-> "p-slug"]
  ELSE IF name = "Post N" THEN [oid |-> "x3", categories |-> "Tech", slug |-> "n-slug"]
  ELSE IF name = "Post I" THEN [oid |-> "x4", categoryId |-> "c1", slug |-> "i-slug"]
  ELSE IF name = "Post M"
    THEN [oid |-> "x5", categories |-> "nosuch", categoryId |-> "c1", slug |-> "m-slug"]
  ELSE IF name = "Post S" THEN [oid |-> "x6", categories |-> "tech"]
  ELSE IF name = "Note 0" THEN [oid |-> "x7"]
  ELSE IF name = "Blank" THEN [oid |-> EmptyList, id |-> "7"]
  ELSE [title |-> "draft"]

SiteUrls == {"", "https://example.com"}

Resolved(url) == [ok |-> TRUE, url |-> url, reason |-> "none"]

Failed(reason) == [ok |-> FALSE, url |-> << >>, reason |-> reason]

\* buildNoteUrl(frontmatter, siteUrl, linkName)
BuildNoteUrl(f, siteUrl) ==
  LET nid == IF Truthy(Get(f, "id")) THEN Get(f, "id") ELSE Get(f, "nid")
  IN  IF ~Truthy(nid) THEN Failed("missing nid/id field")
      ELSE Resolved(<< siteUrl, "/notes/", nid >>)

\* buildPostUrlWithDebug(frontmatter, siteUrl, linkName, debug) against the
\* module's categoriesCache (cache.loaded is FALSE while it is null).
BuildPostUrl(f, siteUrl, cache) ==
  LET cats == IF cache.loaded THEN cache.data ELSE << >>
      categoryValue == IF Truthy(Get(f, "categories")) THEN Get(f, "categories")
                       ELSE Get(f, "categorySlug")
      categoryId == Get(f, "categoryId")
      slugOf(S) == cats[FirstIndex(S)].slug
      found == IF Truthy(categoryValue)
                 THEN IF FindBySlug(cats, categoryValue) # {}
                        THEN Resolved(<< slugOf(FindBySlug(cats, categoryValue)) >>)
                      ELSE IF FindByName(cats, categoryValue) # {}
                        THEN Resolved(<< slugOf(FindByName(cats, categoryValue)) >>)
                      ELSE Failed("Category not found")
               ELSE IF Truthy(categoryId)
                 THEN IF FindById(cats, categoryId) # {}
                        THEN Resolved(<< slugOf(FindById(cats, categoryId)) >>)
                      ELSE Failed("Category with id not found")
               ELSE Failed("missing category field")
  IN  IF ~found.ok THEN found
      ELSE IF ~Truthy(found.url[1]) THEN Failed("missing category field")
      ELSE IF ~Truthy(Get(f, "slug")) THEN Failed("missing slug field")
      ELSE Resolved(<< siteUrl, "/posts/", found.url[1], "/", Get(f, "slug") >>)

\* resolveBacklinkUrlWithDebug(linkName, siteUrl, app, debug)
ResolveBacklinkUrl(linkName, siteUrl, cache) ==
  IF ~TargetExists(linkName) THEN Failed("File not found")
  ELSE LET f == TargetFrontmatter(linkName)
       IN  IF ~Truthy(Get(f, "oid")) THEN Failed("not published (missing oid)")
           ELSE IF DetectContentType(f) = "note" THEN BuildNoteUrl(f, siteUrl)
           ELSE BuildPostUrl(f, siteUrl, cache)

\* A body is the sequence of its [[...]] references; in the converted text a
\* reference that was replaced carries its link URL, the others << >>.
Ref(name) == [ref |-> name, url |-> << >>]

RECURSIVE BodiesOfLength(_)
BodiesOfLength(n) ==
  IF n = 0 THEN { << >> }
  ELSE { Append(b, Ref(t)) : b \in BodiesOfLength(n - 1), t \in Targets }

\* The files the published document refers to: a published note, an
\* unpublished file, a missing file and a published post.
DocumentTargets == {"Note A", "Draft", "Ghost", "Post P"}

Bodies ==
  { b \in UNION { BodiesOfLength(n) : n \in 0..MaxLinks } :
      \A i \in 1..Len(b) : b[i].ref \in DocumentTargets }

\* result.replace(match, replacement): the first occurrence of the matched
\* reference that is still unreplaced becomes the link.
ReplaceFirst(text, name, url) ==
  LET hits == { i \in 1..Len(text) : text[i] = Ref(name) }
  IN  IF hits = {} THEN text
      ELSE [text EXCEPT ![FirstIndex(hits)] = [ref |-> name, url |-> url]]

\* An error list that keeps only the first failure.
OnResolveFailedKeepFirst(errors, link, reason) ==
  IF errors = << >> THEN << [link |-> link, reason |-> reason] >> ELSE errors

\* Lines 105-111: the catch of one reference's failure records its error.
OnResolveFailed(errors, link, reason) ==
  Append(errors, [link |-> link, reason |-> reason])

RECURSIVE ConvertFrom(_, _, _, _, _)
\* The while loop over the references of `body` from index i on, then the
\* replacement loop: acc is [text, errors, conversions], conversions being
\* debug.conversions, one record per reference.
ConvertFrom(body, i, siteUrl, cache, acc) ==
  IF i > Len(body) THEN acc
  ELSE LET r == ResolveBacklinkUrl(body[i].ref, siteUrl, cache)
           next == [text |-> IF r.ok THEN ReplaceFirst(acc.text, body[i].ref, r.url)
                             ELSE acc.text,
                    errors |-> IF r.ok THEN acc.errors
                               ELSE OnResolveFailed(acc.errors, body[i].ref, r.reason),
                    conversions |-> Append(acc.conversions,
                                           [link |-> body[i].ref, finalUrl |-> r.url,
                                            error |-> r.reason])]
       IN  ConvertFrom(body, i + 1, siteUrl, cache, next)

\* A conversion that does not look at the site URL.
ConvertBacklinksAnySite(body, siteUrl, cache) ==
  ConvertFrom(body, 1, siteUrl, cache,
              [text |-> body, errors |-> << >>, conversions |-> << >>])

\* convertBacklinks(text, siteUrl, app, api) once its category fetch has
\* stored `cache` in categoriesCache.
ConvertBacklinks(body, siteUrl, cache) ==
  IF ~Truthy(siteUrl) THEN [text |-> body, errors |-> << >>, conversions |-> << >>]
  ELSE ConvertFrom(body, 1, siteUrl, cache,
                   [text |-> body, errors |-> << >>, conversions |-> << >>])

\* ------------------------------------------------------------------------
\* State.

VARIABLES
  fm,               \* frontmatter of the active document, key -> value
  pc,               \* where the publishCurrent invocation stands
  snap,             \* what publishCurrent read at its start
  calls,            \* remote create/update calls issued by this invocation
  backlinkErrors,   \* number of errors convertBacklinks returned to it
  failure,          \* why the invocation failed
  categoriesCache,  \* module variable categoriesCache of backlinks.ts
  modal,            \* the ConfirmDeleteModal: closed, open, deleting
  delSnap,          \* what deleteFromMixSpace captured for onConfirm
  delLog,           \* remote delete calls issued from the open modal
  arg,              \* input of the function under test (function models)
  res,              \* its result
  profile,          \* the active profile the client was last given
  metaCache,        \* categoriesCache / topicsCache of the plugin, by kind
  fetches,          \* metadata requests in flight
  lastRead          \* the data the last read served from the cache

vars == << fm, pc, snap, calls, backlinkErrors, failure, categoriesCache,
           modal, delSnap, delLog, arg, res,
           profile, metaCache, fetches, lastRead >>

metaVars == << profile, metaCache, fetches, lastRead >>

publishVars == << pc, snap, calls, backlinkErrors, failure >>

deleteVars == << modal, delSnap, delLog >>

testVars == << arg, res >>

\* ------------------------------------------------------------------------
\* The active document.

FmKeys == {"oid", "id", "slug", "categoryId", "updated", "type", "categories", "title"}

\* Object ids the remote service hands out.
Oids == {"o1", "o2"}

\* new Date().toISOString() at write-back.
Now == "t1"

\* response.nid of a note response.
Nid == "n1"

\* The values a key of the active document takes in the model.
KeyValues(k) ==
  IF k = "oid" THEN {Absent, EmptyList} \cup Oids
  ELSE IF k = "id" THEN {Absent, Nid}
  ELSE IF k = "slug" THEN {Absent, "custom"}
  ELSE IF k = "categoryId" THEN {Absent, EmptyList, "c1"}
  ELSE IF k = "updated" THEN {Absent, Now}
  ELSE IF k = "type" THEN {Absent, "post", "note"}
  ELSE IF k = "categories" THEN {Absent, "tech"}
  ELSE {Absent, "kept"}

Frontmatters ==
  [oid : KeyValues("oid"), id : KeyValues("id"), slug : KeyValues("slug"),
   categoryId : KeyValues("categoryId"), updated : KeyValues("updated"),
   type : KeyValues("type"), categories : KeyValues("categories"),
   title : KeyValues("title")]

EmptyFrontmatter == [k \in FmKeys |-> Absent]

\* A write-back that stores the updates in place of the frontmatter.
UpdateFrontmatterOverwrite(f, updates) ==
  [k \in DOMAIN f \cup DOMAIN updates |->
     IF k \in DOMAIN updates THEN updates[k] ELSE Absent]

\* A write-back that leaves a key alone once it has a value.
UpdateFrontmatterKeepExisting(f, updates) ==
  [k \in DOMAIN f \cup DOMAIN updates |->
     IF k \in DOMAIN f /\ f[k] # Absent THEN f[k]
     ELSE IF k \in DOMAIN updates THEN updates[k] ELSE f[k]]

\* Object.assign(frontmatter, updates) inside processFrontMatter.
UpdateFrontmatter(f, updates) ==
  [k \in DOMAIN f \cup DOMAIN updates |->
     IF k \in DOMAIN updates THEN updates[k] ELSE f[k]]

\* The keys clearMixSpaceFrontmatter deletes.
ClearedKeys == {"oid", "id", "slug", "categoryId", "updated"}

\* A clearing that deletes the type key as well.
ClearMixSpaceFrontmatterAndType(f) ==
  [k \in DOMAIN f |-> IF k \in ClearedKeys \cup {"type"} THEN Absent ELSE f[k]]

\* clearMixSpaceFrontmatter(file): a deleted key reads as undefined.
ClearMixSpaceFrontmatter(f) ==
  [k \in DOMAIN f |-> IF k \in ClearedKeys THEN Absent ELSE f[k]]

\* ------------------------------------------------------------------------
\* publishCurrent.

Ended == {"skipped", "failed", "done"}

NoSnap == [frontmatter |-> EmptyFrontmatter, contentType |-> "note",
           existingId |-> Absent, isUpdate |-> FALSE]

\* What a command finds before it reads the document: no active file, a
\* profile without endpoint or token, or both present.
Preconditions == {"nofile", "noconfig", "ready"}

\* Lines 411-428: the early returns, then the document is read, parsed and
\* classified, and existingId / isUpdate are fixed for the invocation.
PublishRead ==
  /\ pc = "idle"
  /\ modal = "closed"
  /\ \E pre \in Preconditions :
       /\ pc' = IF pre = "ready" THEN "converting" ELSE "skipped"
       /\ snap' = IF pre = "ready"
                    THEN [frontmatter |-> fm,
                          contentType |-> DetectContentType(fm),
                          existingId |-> fm["oid"],
                          isUpdate |-> Truthy(fm["oid"])]
                    ELSE NoSnap
  /\ calls' = << >>
  /\ backlinkErrors' = 0
  /\ failure' = "none"
  /\ UNCHANGED << fm, categoriesCache, deleteVars, testVars, metaVars >>

\* A publish that tolerates a single backlink error.
BacklinksBlockAboveOne(nErrors) == nErrors > 1

\* Line 439: backlink errors stop the publish.
BacklinksBlock(nErrors) == nErrors > 0

\* Lines 431-447: convertBacklinks fetches the categories into the module
\* cache and converts the body; any error ends the invocation.
PublishConvert ==
  /\ pc = "converting"
  /\ \E siteUrl \in SiteUrls, body \in Bodies, fetched \in GetCategories(RemoteCategories) :
       LET cache == [loaded |-> TRUE, data |-> fetched]
           r == ConvertBacklinks(body, siteUrl, cache)
       IN  /\ categoriesCache' = cache
           /\ backlinkErrors' = Len(r.errors)
           /\ IF BacklinksBlock(Len(r.errors))
                THEN pc' = "failed" /\ failure' = "backlinks"
                ELSE pc' = "building" /\ failure' = failure
  /\ UNCHANGED << fm, snap, calls, deleteVars, testVars, metaVars >>

\* The create or update request of lines 453-455 and 469-471.
Request(kind, s, categoryId, slug) ==
  [op |-> (IF s.isUpdate THEN "update" ELSE "create") \o kind,
   id |-> IF s.isUpdate THEN s.existingId ELSE Absent,
   categoryId |-> categoryId,
   slug |-> slug]

\* Lines 449-455 and 465-471: the payload is built and the one request of
\* the invocation is issued; a payload error is caught at line 483.
PublishSubmit ==
  /\ pc = "building"
  /\ IF snap.contentType = "note"
       THEN /\ calls' = Append(calls, Request("Note", snap, Absent, Absent))
            /\ pc' = "awaiting"
            /\ failure' = failure
       ELSE \E lookup \in GetCategories(RemoteCategories),
               listing \in GetCategories(RemoteCategories) :
              LET p == BuildPostPayload(snap.frontmatter, lookup, listing)
              IN  IF p.ok
                    THEN /\ calls' = Append(calls, Request("Post", snap, p.categoryId, p.slug))
                         /\ pc' = "awaiting"
                         /\ failure' = failure
                    ELSE /\ calls' = calls
                         /\ pc' = "failed"
                         /\ failure' = p.error.kind
  /\ UNCHANGED << fm, snap, backlinkErrors, categoriesCache, deleteVars, testVars, metaVars >>

\* Lines 457-462: what a note response writes back.
NoteUpdates(oid) ==
  [k \in {"oid", "id", "updated", "type"} |->
     IF k = "oid" THEN oid ELSE IF k = "id" THEN Nid
     ELSE IF k = "updated" THEN Now ELSE "note"]

\* Lines 473-479: what a post response writes back.
PostUpdates(oid, slug, categoryId) ==
  [k \in {"oid", "slug", "categoryId", "updated", "type"} |->
     IF k = "oid" THEN oid ELSE IF k = "slug" THEN slug
     ELSE IF k = "categoryId" THEN categoryId
     ELSE IF k = "updated" THEN Now ELSE "post"]

\* The ids a response to `call` can carry: an update answers with the object
\* it addressed, a create with a new object.
ResponseIds(call) == IF call.id \in Oids THEN {call.id} ELSE Oids

\* A publish that sends a rejected request once more.
OnRequestFailedRetry(cs) == [pc |-> "awaiting", calls |-> Append(cs, cs[Len(cs)])]

\* A publish whose catch lets the error out of publishCurrent.
OnRequestFailedUncaught(cs) == [pc |-> "threw", calls |-> cs]

\* Lines 483-486: a rejected request is caught; the invocation ends.
OnRequestFailed(cs) == [pc |-> "failed", calls |-> cs]

\* The request settles: on success lines 457-462 / 473-479 merge the
\* response into the frontmatter, on failure the catch of line 483 runs.
PublishResponse ==
  /\ pc = "awaiting"
  /\ LET call == calls[Len(calls)]
     IN  \/ /\ pc' = OnRequestFailed(calls).pc
            /\ calls' = OnRequestFailed(calls).calls
            /\ failure' = "remote"
            /\ fm' = fm
         \/ \E oid \in ResponseIds(call) :
              /\ fm' = UpdateFrontmatter(fm,
                         IF snap.contentType = "note" THEN NoteUpdates(oid)
                         ELSE PostUpdates(oid, call.slug, call.categoryId))
              /\ pc' = "done"
              /\ calls' = calls
              /\ failure' = failure
  /\ UNCHANGED << snap, backlinkErrors, categoriesCache, deleteVars, testVars, metaVars >>

\* publishCurrent returns: its locals are gone.
PublishReturn ==
  /\ pc \in Ended
  /\ pc' = "idle"
  /\ snap' = NoSnap
  /\ calls' = << >>
  /\ backlinkErrors' = 0
  /\ failure' = "none"
  /\ UNCHANGED << fm, categoriesCache, deleteVars, testVars, metaVars >>

\* ------------------------------------------------------------------------
\* deleteFromMixSpace and the ConfirmDeleteModal.

NoDelSnap == [oid |-> Absent, contentType |-> "note"]

\* Lines 551-574 and 603: the early returns, then the modal opens with the
\* oid and content type of the frontmatter just read bound into onConfirm.
\* The command is invoked between two publishes or while a publish waits
\* for its request.
DeleteFromMixSpace ==
  /\ modal = "closed"
  /\ pc \in {"idle", "awaiting"}
  /\ \E pre \in Preconditions :
       IF pre = "ready" /\ Truthy(fm["oid"])
         THEN /\ modal' = "open"
              /\ delSnap' = [oid |-> fm["oid"], contentType |-> DetectContentType(fm)]
              /\ delLog' = << >>
         ELSE UNCHANGED deleteVars
  /\ UNCHANGED << fm, publishVars, categoriesCache, testVars, metaVars >>

\* Lines 584-588: the delete request onConfirm issues.
DeleteRequest(s) ==
  [op |-> IF s.contentType = "note" THEN "deleteNote" ELSE "deletePost", id |-> s.oid]

\* ConfirmDeleteModal lines 47-54 and main.ts lines 577-588: a click on
\* Delete while none is running sets isDeleting and runs onConfirm, which
\* issues the remote delete.
ClickDelete ==
  /\ modal = "open"
  /\ Len(delLog) < MaxDeleteTries
  /\ Truthy(delSnap.oid)
  /\ modal' = "deleting"
  /\ delLog' = Append(delLog, DeleteRequest(delSnap))
  /\ UNCHANGED << fm, delSnap, publishVars, categoriesCache, testVars, metaVars >>

\* The frontmatter after the remote delete settled: cleared once it has
\* succeeded (line 591), untouched when it threw (line 595).
AfterDelete(f, ok) == IF ok THEN ClearMixSpaceFrontmatter(f) ELSE f

\* The delete request settles: on success lines 590-594 clear the
\* frontmatter and the modal closes (modal line 55); on failure the error is
\* rethrown and the modal re-arms its button (modal lines 56-60).
DeleteResponse ==
  /\ modal = "deleting"
  /\ \E ok \in BOOLEAN :
       /\ fm' = AfterDelete(fm, ok)
       /\ modal' = IF ok THEN "closed" ELSE "open"
       /\ delSnap' = IF ok THEN NoDelSnap ELSE delSnap
       /\ delLog' = IF ok THEN << >> ELSE delLog
  /\ UNCHANGED << publishVars, categoriesCache, testVars, metaVars >>

\* ConfirmDeleteModal lines 39-41: Cancel closes the modal.
ClickCancel ==
  /\ modal = "open"
  /\ modal' = "closed"
  /\ delSnap' = NoDelSnap
  /\ delLog' = << >>
  /\ UNCHANGED << fm, publishVars, categoriesCache, testVars, metaVars >>

\* ------------------------------------------------------------------------
\* unlinkFromMixSpace.

\* Lines 608-626: without a file or an oid nothing happens, otherwise the
\* synchronization keys are cleared; no remote call is made.
UnlinkFromMixSpace ==
  /\ \E hasFile \in BOOLEAN :
       fm' = IF hasFile /\ Truthy(fm["oid"]) THEN ClearMixSpaceFrontmatter(fm) ELSE fm
  /\ UNCHANGED << publishVars, categoriesCache, deleteVars, testVars, metaVars >>

\* ------------------------------------------------------------------------
\* The user.

\* The keys the user edits by hand in the model.
UserKeys == {"oid", "categoryId", "categories", "type", "slug", "title"}

\* The user changes one key of the document between two commands.
EditFrontmatter ==
  /\ pc = "idle"
  /\ modal = "closed"
  /\ \E k \in UserKeys :
       \E v \in KeyValues(k) :
         /\ v # fm[k]
         /\ fm' = [fm EXCEPT ![k] = v]
  /\ UNCHANGED << publishVars, categoriesCache, deleteVars, testVars, metaVars >>

\* ------------------------------------------------------------------------
\* The plugin's metadata cache.  Time is counted in minutes.  An entry's
\* timestamp and a request's start time are kept as their distance to
\* Date.now(), the age now - timestamp, which is what line 374 compares;
\* ages of CACHE_TTL and more are kept as CACHE_TTL.

Kinds == {"categories", "topics"}

Profiles == {"p1", "p2"}

\* CACHE_TTL, in minutes.
CACHE_TTL == 5

\* Largest number of metadata requests in flight.
MaxInFlight == 3

\* this.categoriesCache = null
NoEntry == [present |-> FALSE, data |-> << >>, age |-> 0]

\* What a metadata request made under profile p delivers: the list of that
\* profile's remote, or [] when the request failed.
Items(p) == << p >>

\* The state the metadata cache does not touch.
restVars == << fm, publishVars, categoriesCache, deleteVars, testVars >>

\* Nothing cached, nothing in flight, nothing read yet.
MetadataIdle ==
  /\ profile = "p1"
  /\ metaCache = [k \in Kinds |-> NoEntry]
  /\ fetches = {}
  /\ lastRead = << >>

\* A cache test that still serves an entry that is exactly CACHE_TTL old.
FreshInclusive(entry) == entry.present /\ entry.age <= CACHE_TTL

\* Lines 374 and 385: the entry exists and now - timestamp < CACHE_TTL.
Fresh(entry) == entry.present /\ entry.age < CACHE_TTL

Older(age) == IF age < CACHE_TTL THEN age + 1 ELSE CACHE_TTL

\* A minute passes: every timestamp is a minute further back.
Tick ==
  /\ metaCache' = [k \in Kinds |->
                     IF metaCache[k].present
                       THEN [metaCache[k] EXCEPT !.age = Older(metaCache[k].age)]
                       ELSE metaCache[k]]
  /\ fetches' = { [f EXCEPT !.age = Older(f.age)] : f \in fetches }
  /\ UNCHANGED << profile, lastRead, restVars >>

\* api.getCategories() / api.getTopics() is issued now; the request is
\* built from the profile the client holds at that moment.
Fetch(kind, prof) == [kind |-> kind, age |-> 0, profile |-> prof]

\* getCategories() / getTopics() up to its await (lines 372-378, 383-389):
\* a fresh entry is returned, otherwise the remote is asked.
GetMetadata(kind) ==
  /\ IF Fresh(metaCache[kind])
       THEN /\ lastRead' = metaCache[kind].data
            /\ fetches' = fetches
       ELSE /\ Cardinality(fetches) < MaxInFlight
            /\ fetches' = fetches \cup {Fetch(kind, profile)}
            /\ lastRead' = lastRead
  /\ UNCHANGED << profile, metaCache, restVars >>

\* The plugin's getCategories().
PluginGetCategories == GetMetadata("categories")

\* The plugin's getTopics().
PluginGetTopics == GetMetadata("topics")

\* A request in flight settles (lines 379-380, 390-391): what it delivers
\* is stored with the time its call started.
FetchSettles ==
  /\ \E f \in fetches :
       /\ metaCache' = [metaCache EXCEPT ![f.kind] =
                          [present |-> TRUE, data |-> Items(f.profile), age |-> f.age]]
       /\ fetches' = fetches \ {f}
  /\ UNCHANGED << profile, lastRead, restVars >>

\* Lines 403-404: both entries are discarded.
DiscardEntries(cache) == [k \in Kinds |-> NoEntry]

\* refreshMetadataCache() up to its await (lines 402-406) under the profile
\* `prof`: both entries are discarded, then getCategories() and getTopics()
\* run against them.
Refreshed(prof) ==
  LET cache == DiscardEntries(metaCache)
      asked(k) == IF Fresh(cache[k]) THEN {} ELSE {Fetch(k, prof)}
  IN  /\ Cardinality(fetches \cup asked("categories") \cup asked("topics")) <= MaxInFlight
      /\ profile' = prof
      /\ metaCache' = cache
      /\ fetches' = fetches \cup asked("categories") \cup asked("topics")
      /\ UNCHANGED << lastRead, restVars >>

\* refreshMetadataCache(), from onload or the refresh command.
RefreshMetadataCache == Refreshed(profile)

\* onProfileChange() (lines 199-203): the client takes the new profile,
\* then the cache is refreshed.
OnProfileChange == \E p \in Profiles \ {profile} : Refreshed(p)

\* ------------------------------------------------------------------------
\* The command model.

Unused == "unused"

Init ==
  /\ fm \in Frontmatters
  /\ pc = "idle"
  /\ snap = NoSnap
  /\ calls = << >>
  /\ backlinkErrors = 0
  /\ failure = "none"
  /\ categoriesCache = [loaded |-> FALSE, data |-> << >>]
  /\ modal = "closed"
  /\ delSnap = NoDelSnap
  /\ delLog = << >>
  /\ arg = Unused
  /\ res = Unused
  /\ MetadataIdle

Next ==
  \/ PublishRead
  \/ PublishConvert
  \/ PublishSubmit
  \/ PublishResponse
  \/ PublishReturn
  \/ DeleteFromMixSpace
  \/ ClickDelete
  \/ DeleteResponse
  \/ ClickCancel
  \/ UnlinkFromMixSpace
  \/ EditFrontmatter

Spec == Init /\ [][Next]_vars

\* ------------------------------------------------------------------------
\* Function model: detectContentType on bounded frontmatters.

ClassifyInputs ==
  [type : {Absent, EmptyStr, "post", "note", "page"},
   categories : {Absent, EmptyStr, EmptyList, "tech"},
   categoryId : {Absent, EmptyList, "c1"},
   mood : {Absent, "happy"},
   weather : {Absent, "sunny"},
   topicId : {Absent, "topic1"}]

Pending == "pending"

CommandsIdle ==
  /\ fm = EmptyFrontmatter
  /\ pc = "idle"
  /\ snap = NoSnap
  /\ calls = << >>
  /\ backlinkErrors = 0
  /\ failure = "none"
  /\ categoriesCache = [loaded |-> FALSE, data |-> << >>]
  /\ modal = "closed"
  /\ delSnap = NoDelSnap
  /\ delLog = << >>
  /\ MetadataIdle

commandVars == << fm, publishVars, categoriesCache, deleteVars, metaVars >>

InitClassify ==
  /\ CommandsIdle
  /\ arg \in ClassifyInputs
  /\ res = Pending

\* detectContentType(frontmatter) is called.
Classify ==
  /\ res = Pending
  /\ res' = DetectContentType(arg)
  /\ UNCHANGED << arg, commandVars >>

\* detectContentType is called again on the same frontmatter.
ClassifyAgain ==
  /\ res # Pending
  /\ res' = DetectContentType(arg)
  /\ UNCHANGED << arg, commandVars >>

NextClassify == Classify \/ ClassifyAgain

SpecClassify == InitClassify /\ [][NextClassify]_vars

\* ------------------------------------------------------------------------
\* Function model: buildPostPayload on bounded frontmatters and remotes.

PayloadFrontmatters ==
  [categoryId : {Absent, EmptyStr, EmptyList, "c1", "c9"},
   categories : {Absent, EmptyStr, EmptyList, "tech", "Tech", "t", "nosuch"},
   slug : {Absent, "custom"}]

CategoryLists ==
  { << >>,
    << Cat("c1", "Tech", "tech") >>,
    RemoteCategories,
    << Cat("c3", "Life", "life"), Cat("c4", "t", "misc"), Cat("c5", "Tech", "tech") >> }

PayloadInputs == [frontmatter : PayloadFrontmatters, remote : CategoryLists]

PendingPayload ==
  [done |-> FALSE, payload |-> Thrown(Pending, Absent, << >>),
   lookup |-> << >>, listing |-> << >>]

InitPayload ==
  /\ CommandsIdle
  /\ arg \in PayloadInputs
  /\ res = PendingPayload

\* buildPostPayload(frontmatter, body, fileName, api) is called against the
\* remote; each of its two category requests succeeds or fails.
BuildPost ==
  /\ ~res.done
  /\ \E lookup \in GetCategories(arg.remote), listing \in GetCategories(arg.remote) :
       res' = [done |-> TRUE,
               payload |-> BuildPostPayload(arg.frontmatter, lookup, listing),
               lookup |-> lookup, listing |-> listing]
  /\ UNCHANGED << arg, commandVars >>

NextPayload == BuildPost

SpecPayload == InitPayload /\ [][NextPayload]_vars

\* ------------------------------------------------------------------------
\* Properties of the command model.

UpdateOps == {"updateNote", "updatePost"}

CreateOps == {"createNote", "createPost"}

PostOps == {"createPost", "updatePost"}

\* C1: when backlink conversion has reported at least one error to a publish
\* invocation, that invocation has issued no remote create or update call.
C1_NoCallAfterBacklinkErrors == backlinkErrors > 0 => calls = << >>

\* A published post whose publish was stopped by a backlink error.
C1_Witness ==
  /\ pc = "failed" /\ failure = "backlinks" /\ backlinkErrors > 0
  /\ snap.isUpdate /\ snap.contentType = "post"

\* C2: a publish invocation issues at most one remote create-or-update
\* call, exactly one once it has reached submission, none before; a failed
\* call leaves that one call and ends the invocation as failed.
C2_OneMutationNoRetry ==
  /\ Len(calls) <= 1
  /\ pc \in {"idle", "skipped", "converting", "building"} => calls = << >>
  /\ pc \in {"awaiting", "done"} => Len(calls) = 1
  /\ failure = "remote" => pc = "failed" /\ Len(calls) = 1
  /\ pc = "failed" /\ failure # "remote" => calls = << >>

\* An invocation whose only request was rejected.
C2_Witness == pc = "failed" /\ failure = "remote" /\ Len(calls) = 1

\* C3: the call of a publish invocation is an update addressed to the oid
\* read at the start of the invocation if and only if that frontmatter
\* carried a non-empty oid, and a create otherwise.
C3_UpdateIffNonEmptyOid ==
  \A i \in 1..Len(calls) :
    /\ calls[i].op \in UpdateOps <=> IsText(snap.existingId)
    /\ calls[i].op \in CreateOps <=> ~IsText(snap.existingId)
    /\ calls[i].op \in UpdateOps => calls[i].id = snap.existingId

\* C4: no createPost or updatePost call carries a categoryId that is empty
\* or missing.
C4_PostCallHasCategoryId ==
  \A i \in 1..Len(calls) :
    calls[i].op \in PostOps => IsText(calls[i].categoryId)

\* The keys a successful publish may change, by content type.
WrittenKeys(contentType) ==
  IF contentType = "note" THEN {"oid", "id", "updated", "type"}
  ELSE {"oid", "slug", "categoryId", "updated", "type"}

C6_DeleteOnlyWithOid ==
  \A i \in 1..Len(delLog) : IsText(delLog[i].id)

\* The frontmatter with exactly the synchronization keys removed.
WithoutSyncKeys(f) ==
  [k \in DOMAIN f |->
     IF k \in {"oid", "id", "slug", "categoryId", "updated"} THEN Absent ELSE f[k]]

\* C7: unlinkFromMixSpace issues no remote call; on a document with an oid
\* it removes exactly oid, id, slug, categoryId and updated; on a document
\* without an oid it changes nothing.
C7_UnlinkFrame ==
  [][UnlinkFromMixSpace =>
       /\ calls' = calls /\ delLog' = delLog
       /\ fm' \in {fm, WithoutSyncKeys(fm)}
       /\ ~IsText(fm["oid"]) => fm' = fm]_vars

\* ------------------------------------------------------------------------
\* Properties of the function models.

\* The classification the decision order prescribes; a field counts as
\* present when its value is truthy.
ExpectedContentType(f) ==
  IF f.type = "post" THEN "post"
  ELSE IF f.type = "note" THEN "note"
  ELSE IF Truthy(f.categories) \/ Truthy(f.categoryId) THEN "post"
  ELSE "note"

\* C8: detectContentType always returns post or note: post for type "post",
\* note for type "note", otherwise post when categories or categoryId is
\* present, otherwise note; so an explicit type overrides every other
\* field and a category field overrides mood, weather and topicId.
C8_ClassifierDecisionOrder ==
  res # Pending =>
    /\ res \in {"post", "note"}
    /\ res = ExpectedContentType(arg)
    /\ arg.type \in {"post", "note"} => res = arg.type
    /\ arg.type \notin {"post", "note"} /\ Truthy(arg.categoryId) => res = "post"

\* A frontmatter with an explicit note type and a category, and one with a
\* category and a mood, have been classified.
C8_Witness ==
  /\ res # Pending
  /\ \/ arg.type = "note" /\ arg.categories = "tech"
     \/ arg.type = Absent /\ arg.categoryId = "c1" /\ arg.mood = "happy"

\* The ids of the categories of `cats` with the given slug / name.
IdsBySlug(cats, value) == { cats[i].id : i \in FindBySlug(cats, value) }

IdsByName(cats, value) == { cats[i].id : i \in FindByName(cats, value) }

\* C9: buildPostPayload uses a present frontmatter categoryId as it is;
\* otherwise a payload built from the categories value carries the id of
\* the remote category with that slug, and of the one with that name only
\* if no slug matches, and is built whenever the lookup request succeeded
\* and one of them exists; with neither field present it fails with the
\* missing-category error.
C9_CategoryResolution ==
  res.done =>
    LET f == arg.frontmatter
        p == res.payload
        bySlug == IdsBySlug(arg.remote, f.categories)
        byName == IdsByName(arg.remote, f.categories)
    IN  /\ Truthy(f.categoryId) => p.ok /\ p.categoryId = f.categoryId
        /\ ~Truthy(f.categoryId) /\ Truthy(f.categories) =>
             /\ p.ok => IF bySlug # {} THEN p.categoryId \in bySlug
                        ELSE p.categoryId \in byName
             /\ res.lookup = arg.remote /\ bySlug \cup byName # {} => p.ok
        /\ ~Truthy(f.categoryId) /\ ~Truthy(f.categories) =>
             ~p.ok /\ p.error.kind = "MissingCategory"

\* A categories value that is the slug of one category and the name of an
\* earlier one has been resolved.
C9_Witness ==
  /\ res.done /\ res.payload.ok
  /\ arg.frontmatter.categoryId = Absent /\ arg.frontmatter.categories = "tech"
  /\ arg.remote = RemoteCategories

\* The frontmatter has no categoryId and a categories value that matches no
\* category of the remote by slug or name.
UnknownCategory ==
  /\ ~Truthy(arg.frontmatter.categoryId)
  /\ Truthy(arg.frontmatter.categories)
  /\ IdsBySlug(arg.remote, arg.frontmatter.categories) = {}
  /\ IdsByName(arg.remote, arg.frontmatter.categories) = {}

\* The text lists the categories of `cats` in order, each as name(slug),
\* separated by ", ", and is 'none' for no category.
ListsAll(text, cats) ==
  IF cats = << >> THEN text = << "none" >>
  ELSE /\ Len(text) = 5 * Len(cats) - 1
       /\ \A i \in 1..Len(cats) :
            /\ text[5 * i - 4] = cats[i].name
            /\ text[5 * i - 3] = "("
            /\ text[5 * i - 2] = cats[i].slug
            /\ text[5 * i - 1] = ")"
       /\ \A i \in 1..(Len(cats) - 1) : text[5 * i] = ", "

\* C10 as stated: for an unknown category the build fails and the error
\* text lists every category of the remote, or 'none' when the remote has
\* no categories.
C10_ErrorListsRemote ==
  res.done /\ UnknownCategory =>
    /\ ~res.payload.ok
    /\ res.payload.error.kind = "CategoryNotFound"
    /\ ListsAll(res.payload.error.available, arg.remote)

\* C10, amended: for an unknown category the build always fails with the
\* category-not-found error, and the error text lists every category the
\* request made for the message returned: all those of the remote when
\* that request succeeded, 'none' when it returned none.
C10_ErrorListsFetched ==
  res.done /\ UnknownCategory =>
    /\ ~res.payload.ok
    /\ res.payload.error.kind = "CategoryNotFound"
    /\ res.payload.error.value = arg.frontmatter.categories
    /\ res.listing \in {arg.remote, << >>}
    /\ ListsAll(res.payload.error.available, res.listing)

\* An unknown category was reported against a remote with several
\* categories, all of them listed.
C10_Witness ==
  /\ res.done /\ UnknownCategory
  /\ Len(arg.remote) = 3 /\ res.listing = arg.remote
  /\ ~res.payload.ok

\* ------------------------------------------------------------------------
\* Function model: convertBacklinks on bounded texts, site URLs and remotes.

RefBodies == UNION { BodiesOfLength(n) : n \in 0..MaxRefs }

BacklinkInputs ==
  [body : RefBodies, siteUrl : SiteUrls, hasApi : BOOLEAN, remote : CategoryLists]

PendingConversion ==
  [done |-> FALSE,
   result |-> [text |-> << >>, errors |-> << >>, conversions |-> << >>],
   fetched |-> << >>, categoriesLoaded |-> 0, categories |-> << >>]

InitBacklinks ==
  /\ CommandsIdle
  /\ arg \in BacklinkInputs
  /\ res = PendingConversion

\* convertBacklinks(text, siteUrl, app, api?) is called: with a client the
\* categories are fetched into categoriesCache and into the debug info
\* (lines 56-64), without one the module cache stays as it was.
ConvertCall ==
  /\ ~res.done
  /\ \E fetched \in (IF arg.hasApi THEN GetCategories(arg.remote) ELSE { << >> }) :
       LET cache == IF arg.hasApi THEN [loaded |-> TRUE, data |-> fetched]
                    ELSE categoriesCache
       IN  /\ categoriesCache' = cache
           /\ res' = [done |-> TRUE,
                      result |-> ConvertBacklinks(arg.body, arg.siteUrl, cache),
                      fetched |-> fetched,
                      categoriesLoaded |-> IF arg.hasApi THEN Len(fetched) ELSE 0,
                      categories |-> IF arg.hasApi THEN fetched ELSE << >>]
  /\ UNCHANGED << arg, fm, publishVars, deleteVars, metaVars >>

NextBacklinks == ConvertCall

SpecBacklinks == InitBacklinks /\ [][NextBacklinks]_vars

\* The references of the converted text whose target resolves to a URL
\* against the categories the call left in categoriesCache.
ResolvesToUrl(r) == ResolveBacklinkUrl(r.ref, arg.siteUrl, categoriesCache).ok

DoesNotResolve(r) == ~ResolvesToUrl(r)

\* C11: with a site URL, convertBacklinks handles every reference of the
\* text in order: one debug record per reference, naming it; one error per
\* reference that did not resolve, in order; and no error at all exactly
\* when every reference resolved.
C11_EveryReferenceProcessed ==
  res.done /\ Truthy(arg.siteUrl) =>
    LET r == res.result
        failed == SelectSeq(arg.body, DoesNotResolve)
    IN  /\ Len(r.conversions) = Len(arg.body)
        /\ \A i \in 1..Len(arg.body) : r.conversions[i].link = arg.body[i].ref
        /\ Len(r.errors) = Len(failed)
        /\ \A i \in 1..Len(failed) : r.errors[i].link = failed[i].ref
        /\ r.errors = << >> <=> \A i \in 1..Len(arg.body) : ResolvesToUrl(arg.body[i])

\* A text whose first reference fails and whose second fails too has been
\* converted.
C11_Witness ==
  /\ res.done /\ Truthy(arg.siteUrl)
  /\ Len(arg.body) = 2 /\ Len(res.result.errors) = 2
  /\ arg.body[1].ref = "Ghost" /\ arg.body[2].ref = "Draft"

\* C12: without a site URL convertBacklinks returns the text as it was and
\* no error, and, when a client was supplied, the categories it fetched as
\* debug info.
C12_NoSiteUrlPassthrough ==
  res.done /\ ~Truthy(arg.siteUrl) =>
    /\ res.result.text = arg.body
    /\ res.result.errors = << >>
    /\ arg.hasApi => /\ res.fetched \in GetCategories(arg.remote)
                     /\ res.categories = res.fetched
                     /\ res.categoriesLoaded = Len(res.fetched)

\* A text with a reference to a published note and one to a missing file
\* went through without a site URL, the remote's categories fetched.
C12_Witness ==
  /\ res.done /\ arg.siteUrl = "" /\ arg.hasApi
  /\ Len(arg.body) = 2 /\ arg.body[1].ref = "Note A" /\ arg.body[2].ref = "Ghost"
  /\ res.categoriesLoaded = 3

\* A reference to a published post that has a slug.
PostTarget(name) ==
  /\ TargetExists(name)
  /\ Truthy(Get(TargetFrontmatter(name), "oid"))
  /\ DetectContentType(TargetFrontmatter(name)) = "post"
  /\ Truthy(Get(TargetFrontmatter(name), "slug"))

\* The indexes of the categories that match the target's category: by slug
\* if any does, else by name if any does, else by id.
CategoryMatches(f, cats) ==
  IF FindBySlug(cats, Get(f, "categories")) # {} THEN FindBySlug(cats, Get(f, "categories"))
  ELSE IF FindByName(cats, Get(f, "categories")) # {}
    THEN FindByName(cats, Get(f, "categories"))
  ELSE FindById(cats, Get(f, "categoryId"))

CategoryErrors == {"Category not found", "Category with id not found", "missing category field"}

\* C13: a reference to a post resolves through the fetched category that
\* matches the target's category by slug, else by name, else by id, to
\* {siteUrl}/posts/{that category's slug}/{target's slug}; it fails for its
\* category only when none of the three matches.
C13_SlugNameIdMatching ==
  res.done /\ Truthy(arg.siteUrl) =>
    \A i \in 1..Len(arg.body) :
      PostTarget(arg.body[i].ref) =>
        LET f == TargetFrontmatter(arg.body[i].ref)
            cats == categoriesCache.data
            hits == CategoryMatches(f, cats)
            conv == res.result.conversions[i]
        IN  IF hits # {}
              THEN conv.finalUrl =
                     << arg.siteUrl, "/posts/", cats[FirstIndex(hits)].slug, "/", Get(f, "slug") >>
              ELSE conv.error \in CategoryErrors

\* C14: a reference whose target file does not exist yields the 'File not
\* found' error, one whose target's frontmatter carries no oid the 'not
\* published' error, and neither is replaced by a link.
C14_UnpublishedNeverLinked ==
  res.done /\ Truthy(arg.siteUrl) =>
    \A i \in 1..Len(arg.body) :
      LET name == arg.body[i].ref
          conv == res.result.conversions[i]
      IN  /\ ~TargetExists(name) =>
                conv.error = "File not found" /\ res.result.text[i] = arg.body[i]
          /\ TargetExists(name) /\ ~IsText(Get(TargetFrontmatter(name), "oid")) =>
                conv.error = "not published (missing oid)" /\ res.result.text[i] = arg.body[i]

\* ------------------------------------------------------------------------
\* The metadata cache model.

InitMetadata ==
  /\ CommandsIdle
  /\ arg = Unused
  /\ res = Unused

NextMetadata ==
  \/ Tick
  \/ PluginGetCategories
  \/ PluginGetTopics
  \/ FetchSettles
  \/ RefreshMetadataCache
  \/ OnProfileChange

SpecMetadata == InitMetadata /\ [][NextMetadata]_vars

\* C15: a read of categories or topics is served from the cache, without a
\* remote request, while the entry is younger than CACHE_TTL, and starts a
\* remote request when there is no entry or the entry is CACHE_TTL old or
\* older; refreshMetadataCache leaves no entry and asks for both kinds.
C15_CacheTimeToLive ==
  [][/\ \A k \in Kinds :
          GetMetadata(k) =>
            IF metaCache[k].present /\ metaCache[k].age < CACHE_TTL
              THEN fetches' = fetches /\ lastRead' = metaCache[k].data
              ELSE /\ fetches' = fetches \cup {[kind |-> k, age |-> 0, profile |-> profile]}
                   /\ lastRead' = lastRead
     /\ RefreshMetadataCache =>
          \A k \in Kinds :
            /\ ~metaCache'[k].present
            /\ [kind |-> k, age |-> 0, profile |-> profile] \in fetches']_vars

\* The categories entry has expired and is being fetched again, while the
\* topics entry, a minute younger, has just been served from the cache.
C15_Witness ==
  /\ metaCache["categories"].present /\ metaCache["categories"].age = CACHE_TTL
  /\ [kind |-> "categories", age |-> 0, profile |-> profile] \in fetches
  /\ metaCache["topics"].present /\ metaCache["topics"].age = CACHE_TTL - 1
  /\ metaCache["topics"].data = Items("p2") /\ lastRead = Items("p2")

\* C16: the metadata cache never holds categories or topics that a request
\* made under another profile than the current one delivered.
C16_NoPreviousProfileData ==
  \A k \in Kinds : metaCache[k].present => metaCache[k].data = Items(profile)

\* ------------------------------------------------------------------------
\* Function model: parseFrontmatter on bounded documents.  A document is
\* the sequence of its characters.

Chars == {"-", "\n", "k", ":", " "}

Marker == << "-", "-", "-" >>

Newline == << "\n" >>

IsSpace(c) == c \in {" ", "\n", "\t", "\r"}

IsWord(c) == c \in {"k", "_"}

IsQuote(c) == c \in {"'", "\""}

\* text.startsWith(pat, i - 1)
OccursAt(text, i, pat) ==
  /\ i + Len(pat) - 1 <= Len(text)
  /\ \A j \in 1..Len(pat) : text[i + j - 1] = pat[j]

From(text, i) == SubSeq(text, i, Len(text))

RECURSIVE TrimStart(_)
TrimStart(text) ==
  IF text # << >> /\ IsSpace(text[1]) THEN TrimStart(Tail(text)) ELSE text

RECURSIVE TrimEnd(_)
TrimEnd(text) ==
  IF text # << >> /\ IsSpace(text[Len(text)])
    THEN TrimEnd(SubSeq(text, 1, Len(text) - 1)) ELSE text

\* String.prototype.trim
Trim(text) == TrimEnd(TrimStart(text))

RECURSIVE SplitLines(_)
\* text.split('\n')
SplitLines(text) ==
  LET breaks == { i \in 1..Len(text) : text[i] = "\n" }
  IN  IF breaks = {} THEN << text >>
      ELSE << SubSeq(text, 1, FirstIndex(breaks) - 1) >>
             \o SplitLines(From(text, FirstIndex(breaks) + 1))

\* value.replace(/^['"](.*)['"]$/, '$1')
StripQuotes(text) ==
  IF Len(text) >= 2 /\ IsQuote(text[1]) /\ IsQuote(text[Len(text)])
    THEN SubSeq(text, 2, Len(text) - 1) ELSE text

\* The length of the prefix of `line` that /^\s+-\s+/ matches, 0 for none.
ArrayItemPrefix(line) ==
  LET lead == Len(line) - Len(TrimStart(line))
      rest == From(line, lead + 2)
  IN  IF lead >= 1 /\ lead < Len(line) /\ line[lead + 1] = "-"
         /\ rest # << >> /\ IsSpace(rest[1])
        THEN lead + 1 + (Len(rest) - Len(TrimStart(rest)))
      ELSE 0

\* The length of the key that /^(\w+):\s*(.*)$/ matches in `line`, 0 for none.
KeyLength(line) ==
  LET stops == { i \in 1..Len(line) : ~IsWord(line[i]) }
  IN  IF stops # {} /\ FirstIndex(stops) > 1 /\ line[FirstIndex(stops)] = ":"
        THEN FirstIndex(stops) - 1
      ELSE 0

EmptyMap == [key \in {} |-> << >>]

Put(map, key, value) ==
  [x \in DOMAIN map \cup {key} |-> IF x = key THEN value ELSE map[x]]

TextValue(text) == [array |-> FALSE, text |-> text, items |-> << >>]

ArrayValue(items) == [array |-> TRUE, text |-> << >>, items |-> items]

NoKey == << >>

\* Lines 37-41 and 62-64: an array that was being collected is stored.
SavePending(st) ==
  IF st.currentKey # NoKey
    THEN [frontmatter |-> Put(st.frontmatter, st.currentKey, ArrayValue(st.currentArray)),
          currentKey |-> NoKey, currentArray |-> << >>]
  ELSE st

\* One turn of the loop of lines 26-59.  The documents of the model carry
\* no digit and no letter but k, so no value is a number or a boolean.
ParseLine(st, line) ==
  IF ArrayItemPrefix(line) > 0
    THEN IF st.currentKey # NoKey
           THEN [st EXCEPT !.currentArray =
                   Append(@, StripQuotes(Trim(From(line, ArrayItemPrefix(line) + 1))))]
         ELSE st
  ELSE LET saved == SavePending(st)
           n == KeyLength(line)
           key == SubSeq(line, 1, n)
           value == TrimStart(From(line, n + 2))
       IN  IF n = 0 THEN saved
           ELSE IF Trim(value) = << >>
             THEN [saved EXCEPT !.currentKey = key, !.currentArray = << >>]
           ELSE [saved EXCEPT !.frontmatter = Put(@, key, TextValue(StripQuotes(value)))]

RECURSIVE ParseLines(_, _)
ParseLines(st, lines) ==
  IF lines = << >> THEN SavePending(st)
  ELSE ParseLines(ParseLine(st, Head(lines)), Tail(lines))

\* The places where the closing "\n---" of /^---\n([\s\S]*?)\n---\n?([\s\S]*)$/
\* can start in a document that opens with "---\n".
ClosingPlaces(content) ==
  { i \in 5..Len(content) : OccursAt(content, i, Newline \o Marker) }

\* parseFrontmatter(content)
ParseFrontmatter(content) ==
  IF ~OccursAt(content, 1, Marker \o Newline) \/ ClosingPlaces(content) = {}
    THEN [frontmatter |-> EmptyMap, body |-> content]
  ELSE LET close == FirstIndex(ClosingPlaces(content))
           yaml == SubSeq(content, 5, close - 1)
           after == IF OccursAt(content, close + 4, Newline) THEN close + 5 ELSE close + 4
       IN  [frontmatter |->
              ParseLines([frontmatter |-> EmptyMap, currentKey |-> NoKey,
                          currentArray |-> << >>], SplitLines(yaml)).frontmatter,
            body |-> Trim(From(content, after))]

RECURSIVE TextsOfLength(_)
TextsOfLength(n) ==
  IF n = 0 THEN { << >> }
  ELSE { Append(t, c) : t \in TextsOfLength(n - 1), c \in Chars }

\* How the documents of the model begin: with anything, with the opening
\* marker line, or with the opening marker line and a second marker.
Heads == { << >>, Marker \o Newline, Marker \o Newline \o Marker }

Documents ==
  { h \o t : h \in Heads, t \in UNION { TextsOfLength(n) : n \in 0..MaxTail } }

PendingParse == [done |-> FALSE, frontmatter |-> EmptyMap, body |-> << >>]

InitParse ==
  /\ CommandsIdle
  /\ arg \in Documents
  /\ res = PendingParse

\* parseFrontmatter(content) is called.
Parse ==
  /\ ~res.done
  /\ res' = [done |-> TRUE,
             frontmatter |-> ParseFrontmatter(arg).frontmatter,
             body |-> ParseFrontmatter(arg).body]
  /\ UNCHANGED << arg, commandVars >>

NextParse == Parse

SpecParse == InitParse /\ [][NextParse]_vars

\* The document starts with the opening marker line, and the line after it
\* is the closing marker line.
MarkersAdjacent(content) ==
  /\ OccursAt(content, 1, Marker \o Newline \o Marker)
  /\ Len(content) = 7 \/ content[8] = "\n"

\* C17: for a document that starts with the opening marker line immediately
\* followed by the closing marker line, parseFrontmatter returns an empty
\* frontmatter map and the whole document as body.
C17_AdjacentMarkersUnparsed ==
  res.done /\ MarkersAdjacent(arg) =>
    DOMAIN res.frontmatter = {} /\ res.body = arg

\* ------------------------------------------------------------------------
\* Function model: stripFirstH1IfMatchesTitle on bounded bodies and titles.

RECURSIVE JoinLines(_)
\* lines.join('\n')
JoinLines(lines) ==
  IF lines = << >> THEN << >>
  ELSE IF Len(lines) = 1 THEN lines[1]
  ELSE lines[1] \o Newline \o JoinLines(Tail(lines))

\* The text /^#\s+(.+)$/ captures in a trimmed line, << >> when it does not
\* match: the line is "#", white space, then at least one more character.
H1Text(firstLine) ==
  IF Len(firstLine) >= 3 /\ firstLine[1] = "#" /\ IsSpace(firstLine[2])
    THEN TrimStart(From(firstLine, 2))
  ELSE << >>

\* A strip that removes the heading line only.
SkipNoLines(lines, start) == start

RECURSIVE SkipBlankLines(_, _)
\* Lines 38-41: the index of the first line from `start` on that is not
\* blank, past the last line when there is none.
SkipBlankLines(lines, start) ==
  IF start <= Len(lines) /\ Trim(lines[start]) = << >>
    THEN SkipBlankLines(lines, start + 1)
  ELSE start

\* stripFirstH1IfMatchesTitle(body, title)
StripFirstH1IfMatchesTitle(body, title) ==
  LET lines == SplitLines(body)
      h1Title == Trim(H1Text(Trim(lines[1])))
  IN  IF h1Title # << >> /\ h1Title = title
        THEN JoinLines(SubSeq(lines, SkipBlankLines(lines, 2), Len(lines)))
      ELSE body

\* The text field of the payload buildNotePayload and buildPostPayload build
\* for the file name `fileName` (lines 58-65 and 110-117).
PayloadText(body, fileName) == StripFirstH1IfMatchesTitle(body, fileName)

BodyChars == {"#", " ", "T", "\n"}

RECURSIVE BodyTextsOfLength(_)
BodyTextsOfLength(n) ==
  IF n = 0 THEN { << >> }
  ELSE { Append(t, c) : t \in BodyTextsOfLength(n - 1), c \in BodyChars }

Titles == { << "T" >>, << "T", " ", "T" >>, << "#", " ", "T" >> }

StripInputs ==
  [body : UNION { BodyTextsOfLength(n) : n \in 0..MaxBody }, title : Titles]

PendingStrip == [done |-> FALSE, text |-> << >>]

InitStrip ==
  /\ CommandsIdle
  /\ arg \in StripInputs
  /\ res = PendingStrip

\* The payload is built from the body and the file name.
BuildText ==
  /\ ~res.done
  /\ res' = [done |-> TRUE, text |-> PayloadText(arg.body, arg.title)]
  /\ UNCHANGED << arg, commandVars >>

NextStrip == BuildText

SpecStrip == InitStrip /\ [][NextStrip]_vars

\* The first line of a text: its characters before the first line break.
FirstLine(text) ==
  LET breaks == { i \in 1..Len(text) : text[i] = "\n" }
  IN  IF breaks = {} THEN text ELSE SubSeq(text, 1, FirstIndex(breaks) - 1)

\* The first line of `body` is a level-1 heading with the text `title`: set
\* apart from surrounding white space it is "#", white space, and the title.
IsTitleHeading(body, title) ==
  LET line == Trim(FirstLine(body))
  IN  \E n \in 1..Len(line) :
        /\ line[1] = "#"
        /\ \A j \in 2..(n + 1) : j <= Len(line) /\ line[j] = " "
        /\ From(line, n + 2) = title

AllBlank(text) == \A i \in 1..Len(text) : IsSpace(text[i])

\* `text` is `body` without its first line and the blank lines right after
\* it: a whole number of lines was cut off the front, all of them blank but
\* the first, and what is left does not begin with a blank line.
IsBodyAfterHeading(text, body) ==
  \E cut \in Len(FirstLine(body))..Len(body) :
    /\ text = From(body, cut + 1)
    /\ cut = Len(body) \/ body[cut] = "\n"
    /\ AllBlank(SubSeq(body, Len(FirstLine(body)) + 1, cut))
    /\ text = << >> \/ ~AllBlank(FirstLine(text))

\* C18: when the first line of the body is a level-1 heading whose text is
\* the title, the payload text is the body without that line and the blank
\* lines right after it; for every other body it is the body.
C18_HeadingStripped ==
  res.done =>
    IF IsTitleHeading(arg.body, arg.title)
      THEN IsBodyAfterHeading(res.text, arg.body)
    ELSE res.text = arg.body

\* A body with the title as heading, a blank line and a paragraph has been
\* stripped down to the paragraph.
C18_Witness ==
  /\ res.done
  /\ arg.title = << "T" >>
  /\ arg.body = << "#", " ", "T", "\n", "\n", "T" >>
  /\ res.text = << "T" >>

\* ------------------------------------------------------------------------
\* Function model: generateSlug on bounded titles.  A title is the sequence
\* of its characters; "zh" stands for a character of 一-龥, "I." for
\* the capital I with a dot above, whose lower case is an i followed by a
\* combining dot ("dot").

SlugChars == {"a", "A", "1", "-", " ", "!", "zh", "I."}

\* c.toLowerCase()
LowerCaseOf(c) ==
  IF c = "A" THEN << "a" >>
  ELSE IF c = "I." THEN << "i", "dot" >>
  ELSE << c >>

RECURSIVE ToLowerCase(_)
\* title.toLowerCase()
ToLowerCase(text) ==
  IF text = << >> THEN << >> ELSE LowerCaseOf(Head(text)) \o ToLowerCase(Tail(text))

\* [a-z0-9一-龥]
IsSlugChar(c) == c \in {"a", "i", "1", "zh"}

RECURSIVE ReplaceEachSeparator(_)
\* A replacement of every single character outside the class by a dash.
ReplaceEachSeparator(text) ==
  IF text = << >> THEN << >>
  ELSE (IF IsSlugChar(Head(text)) THEN << Head(text) >> ELSE << "-" >>)
         \o ReplaceEachSeparator(Tail(text))

RECURSIVE CollapseSeparators(_)
\* .replace(/[^a-z0-9一-龥]+/g, '-'): every run of characters
\* outside the class becomes one dash.
CollapseSeparators(text) ==
  IF text = << >> THEN << >>
  ELSE IF IsSlugChar(Head(text)) THEN << Head(text) >> \o CollapseSeparators(Tail(text))
  ELSE IF Len(text) >= 2 /\ ~IsSlugChar(text[2]) THEN CollapseSeparators(Tail(text))
  ELSE << "-" >> \o CollapseSeparators(Tail(text))

\* .replace(/^-|-$/g, ''): a dash at the start and a dash at the end go.
StripEdgeDashes(text) ==
  LET rest == IF text # << >> /\ Head(text) = "-" THEN Tail(text) ELSE text
  IN  IF rest # << >> /\ rest[Len(rest)] = "-" THEN SubSeq(rest, 1, Len(rest) - 1)
      ELSE rest

\* generateSlug(title)
GenerateSlug(title) == StripEdgeDashes(CollapseSeparators(ToLowerCase(title)))

RECURSIVE TitlesOfLength(_)
TitlesOfLength(n) ==
  IF n = 0 THEN { << >> }
  ELSE { Append(t, c) : t \in TitlesOfLength(n - 1), c \in SlugChars }

SlugInputs == UNION { TitlesOfLength(n) : n \in 0..MaxTitle }

PendingSlug == [calls |-> 0, slug |-> << >>, again |-> << >>]

InitSlug ==
  /\ CommandsIdle
  /\ arg \in SlugInputs
  /\ res = PendingSlug

\* generateSlug(title) is called.
SlugTitle ==
  /\ res.calls = 0
  /\ res' = [calls |-> 1, slug |-> GenerateSlug(arg), again |-> << >>]
  /\ UNCHANGED << arg, commandVars >>

\* generateSlug is called on the slug it returned.
SlugAgain ==
  /\ res.calls = 1
  /\ res' = [res EXCEPT !.calls = 2, !.again = GenerateSlug(res.slug)]
  /\ UNCHANGED << arg, commandVars >>

NextSlug == SlugTitle \/ SlugAgain

SpecSlug == InitSlug /\ [][NextSlug]_vars

\* C19: generateSlug applied to a slug it returned returns that slug.
C19_SlugIdempotent == res.calls = 2 => res.again = res.slug

\* A title with an upper-case letter, separators of several kinds in a row
\* and a trailing separator has been slugged twice.
C19_Witness ==
  /\ res.calls = 2
  /\ arg = << "A", " ", "!", "zh" >>
  /\ res.slug = << "a", "-", "zh" >>

\* ------------------------------------------------------------------------
\* Function model: MixSpaceAPI.request on one response of requestUrl.  A
\* response is its status, its body text, and the JSON read from that text:
\* json.parsed is FALSE when the body is empty or is not JSON (json stays
\* null), and json.message is the message field of a parsed body.

Statuses == {200, 201, 204, 299, 300, 301, 304, 399, 400, 401, 404, 500, 599}

MessageValues == {Absent, EmptyStr, "Bad request"}

Responses ==
  { [status |-> st, json |-> [parsed |-> TRUE, message |-> m], text |-> "{json}"] :
      st \in Statuses, m \in MessageValues }
  \cup
  { [status |-> st, json |-> [parsed |-> FALSE, message |-> Absent], text |-> t] :
      st \in Statuses, t \in {EmptyStr, "Bad Gateway"} }

\* `HTTP ${response.status}`
HttpStatusText(status) == "HTTP " \o ToString(status)

\* json?.message || response.text || `HTTP ${response.status}`
ErrorMsg(response) ==
  IF Truthy(response.json.message) THEN response.json.message
  ELSE IF Truthy(response.text) THEN response.text
  ELSE HttpStatusText(response.status)

\* A handling that throws only above status 400.
requestAbove400(response) ==
  IF response.status > 400
  THEN [done |-> TRUE, failed |-> TRUE, message |-> ErrorMsg(response)]
  ELSE [done |-> TRUE, failed |-> FALSE, message |-> Absent]

\* request(path, method, body) once requestUrl has answered: it throws
\* Error(String(errorMsg)) for a status of 400 or more, and returns the
\* JSON otherwise; the catch around it logs and throws the same error.
request(response) ==
  IF response.status >= 400
  THEN [done |-> TRUE, failed |-> TRUE, message |-> ErrorMsg(response)]
  ELSE [done |-> TRUE, failed |-> FALSE, message |-> Absent]

PendingRequest == [done |-> FALSE, failed |-> FALSE, message |-> Absent]

InitRequest ==
  /\ CommandsIdle
  /\ arg \in Responses
  /\ res = PendingRequest

\* requestUrl answers and request handles the response.
RequestSettles ==
  /\ ~res.done
  /\ res' = request(arg)
  /\ UNCHANGED << arg, commandVars >>

NextRequest == RequestSettles

SpecRequest == InitRequest /\ [][NextRequest]_vars

\* The message the error of a failed request is to carry.
MessageIsFieldTextOrStatus ==
  /\ Truthy(arg.json.message) => res.message = arg.json.message
  /\ ~Truthy(arg.json.message) /\ arg.text # EmptyStr => res.message = arg.text
  /\ ~Truthy(arg.json.message) /\ arg.text = EmptyStr =>
       res.message = "HTTP " \o ToString(arg.status)

ListBodies ==
  { [parsed |-> TRUE, message |-> Absent, hasData |-> TRUE, data |-> << "item" >>],
    [parsed |-> TRUE, message |-> Absent, hasData |-> TRUE, data |-> << >>],
    [parsed |-> TRUE, message |-> Absent, hasData |-> FALSE, data |-> << >>],
    [parsed |-> TRUE, message |-> "Bad request", hasData |-> FALSE, data |-> << >>],
    [parsed |-> FALSE, message |-> Absent, hasData |-> FALSE, data |-> << >>] }

ListResponses ==
  { [status |-> st, json |-> j, text |-> IF j.parsed THEN "{json}" ELSE EmptyStr] :
      st \in Statuses, j \in ListBodies }

ListInputs == [kind : Kinds, transportFailed : BOOLEAN, response : ListResponses]

Returned(value) == [done |-> TRUE, threw |-> FALSE, value |-> value]

\* A catch that throws the error on.
OnListFailedRethrow == [done |-> TRUE, threw |-> TRUE, value |-> << >>]

\* Lines 129-131 and 138-140: catch { return [] }
OnListFailed == Returned(<< >>)

\* Lines 125-132 and 134-141: the request is awaited inside try; a
\* rejected requestUrl, an error thrown by request and the TypeError of
\* reading .data of a null JSON all end in the catch; otherwise
\* response.data || [] is returned.
GetListOrEmpty(transportFailed, response) ==
  IF transportFailed THEN OnListFailed
  ELSE IF request(response).failed THEN OnListFailed
  ELSE IF ~response.json.parsed THEN OnListFailed
  ELSE IF ~response.json.hasData THEN Returned(<< >>)
  ELSE Returned(response.json.data)

PendingList == [done |-> FALSE, threw |-> FALSE, value |-> << >>]

InitList ==
  /\ CommandsIdle
  /\ arg \in ListInputs
  /\ res = PendingList

\* api.getCategories()
ApiGetCategories ==
  /\ ~res.done
  /\ arg.kind = "categories"
  /\ res' = GetListOrEmpty(arg.transportFailed, arg.response)
  /\ UNCHANGED << arg, commandVars >>

\* api.getTopics()
ApiGetTopics ==
  /\ ~res.done
  /\ arg.kind = "topics"
  /\ res' = GetListOrEmpty(arg.transportFailed, arg.response)
  /\ UNCHANGED << arg, commandVars >>

NextList == ApiGetCategories \/ ApiGetTopics

SpecList == InitList /\ [][NextList]_vars

\* The request failed: no response arrived, or it carries an error status.
RequestFailure == arg.transportFailed \/ arg.response.status >= 400

\* C21: getCategories and getTopics never throw, and return the empty list
\* whenever the request failed with a transport error or an error status.
C21_ListsNeverThrow ==
  res.done =>
    /\ ~res.threw
    /\ RequestFailure => res.value = << >>

\* getTopics has answered a response of status 500 that carries a message,
\* and getCategories a transport error.
C21_Witness ==
  /\ res.done
  /\ res.value = << >>
  /\ \/ /\ arg.kind = "topics" /\ ~arg.transportFailed
        /\ arg.response.status = 500 /\ arg.response.json.message = "Bad request"
     \/ arg.kind = "categories" /\ arg.transportFailed

\* ------------------------------------------------------------------------
\* Function model: AIService.generateSlug on the text the AI model
\* returned.  A text is a run of letters followed by a few characters of
\* any kind, so that texts around the length limit are among the inputs.

\* .slice(0, 50)
MaxSlugLength == 50

AiChars == {"a", "A", "-", "!", " ", "zh"}

RECURSIVE Letters(_)
Letters(n) == IF n = 0 THEN << >> ELSE << "a" >> \o Letters(n - 1)

RECURSIVE AiTailsOfLength(_)
AiTailsOfLength(n) ==
  IF n = 0 THEN { << >> }
  ELSE { Append(t, c) : t \in AiTailsOfLength(n - 1), c \in AiChars }

AiTexts ==
  [pad : 0..MaxPad, tail : UNION { AiTailsOfLength(n) : n \in 0..MaxSlugTail }]

\* The text of generateText for an input.
AiText(in) == Letters(in.pad) \o in.tail

RECURSIVE ReplaceInvalidChars(_)
\* Line 94: every character other than a-z, 0-9, a CJK character and the
\* hyphen becomes a hyphen.
ReplaceInvalidChars(text) ==
  IF text = << >> THEN << >>
  ELSE (IF IsSlugChar(Head(text)) \/ Head(text) = "-" THEN << Head(text) >> ELSE << "-" >>)
         \o ReplaceInvalidChars(Tail(text))

RECURSIVE CollapseHyphens(_)
\* Line 96: .replace(/-+/g, '-')
CollapseHyphens(text) ==
  IF text = << >> THEN << >>
  ELSE IF Len(text) >= 2 /\ text[1] = "-" /\ text[2] = "-" THEN CollapseHyphens(Tail(text))
  ELSE << Head(text) >> \o CollapseHyphens(Tail(text))

\* Line 100: .slice(0, n)
Slice(text, n) == SubSeq(text, 1, IF Len(text) < n THEN Len(text) ELSE n)

\* sanitizeSlug(slug), lines 89-102.
SanitizeSlug(slug) ==
  Slice(StripEdgeDashes(CollapseHyphens(ReplaceInvalidChars(ToLowerCase(slug)))),
        MaxSlugLength)

\* generateSlug(context), lines 55-59, for a configured service whose model
\* answered `text`: generate returns text.trim(), which is sanitized.
AiGenerateSlug(text) == SanitizeSlug(Trim(text))

PendingAiSlug == [done |-> FALSE, value |-> << >>]

InitAiSlug ==
  /\ CommandsIdle
  /\ arg \in AiTexts
  /\ res = PendingAiSlug

\* The AI model answers and generateSlug returns.
AiSlugReturns ==
  /\ ~res.done
  /\ res' = [done |-> TRUE, value |-> AiGenerateSlug(AiText(arg))]
  /\ UNCHANGED << arg, commandVars >>

NextAiSlug == AiSlugReturns

SpecAiSlug == InitAiSlug /\ [][NextAiSlug]_vars

\* C22: the value generateSlug returns has at most 50 characters, consists
\* only of lower-case ASCII letters, digits, CJK characters and single
\* hyphens, and neither starts nor ends with a hyphen.
C22_SlugWellFormed ==
  res.done =>
    LET v == res.value
    IN  /\ Len(v) <= 50
        /\ \A i \in 1..Len(v) : IsSlugChar(v[i]) \/ v[i] = "-"
        /\ \A i \in 1..(Len(v) - 1) : ~(v[i] = "-" /\ v[i + 1] = "-")
        /\ v # << >> => v[1] # "-" /\ v[Len(v)] # "-"

\* ------------------------------------------------------------------------
\* Two convertBacklinks calls of one process, a publish and a dry sync of
\* main.ts lines 431 and 512, both given the remote client.  They share the
\* module variable categoriesCache and interleave at their awaits: the
\* category request of lines 56-58 and the file read of each reference
\* (resolveBacklinkUrlWithDebug line 145).  res holds, per call, where it
\* stands, the list its own request returned and, per reference it has
\* processed, the list the reference was resolved against.

Callers == {"publish", "drySync"}

\* The files the two documents refer to.
SharedTargets == {"Note A", "Post P", "Post I"}

SharedBodies ==
  { b \in UNION { BodiesOfLength(n) : n \in 0..MaxRefs } :
      \A i \in 1..Len(b) : b[i].ref \in SharedTargets }

NotCalled == [pc |-> "idle", fetched |-> << >>, next |-> 1, resolutions |-> << >>]

\* What the calls leave alone.
sharedRest == << arg, fm, publishVars, deleteVars, metaVars >>

InitShared ==
  /\ CommandsIdle
  /\ arg \in [Callers -> SharedBodies]
  /\ res = [c \in Callers |-> NotCalled]

\* convertBacklinks(text, siteUrl, app, api) is called and awaits
\* api.getCategories() (line 58).
ConvertStarts(c) ==
  /\ res[c].pc = "idle"
  /\ res' = [res EXCEPT ![c].pc = "fetching"]
  /\ UNCHANGED << categoriesCache, sharedRest >>

\* Lines 58-64: the request of call c settles and its list is assigned to
\* categoriesCache.
ConvertFetched(c) ==
  /\ res[c].pc = "fetching"
  /\ \E fetched \in GetCategories(RemoteCategories) :
       /\ categoriesCache' = [loaded |-> TRUE, data |-> fetched]
       /\ res' = [res EXCEPT ![c].pc = "resolving", ![c].fetched = fetched]
  /\ UNCHANGED sharedRest

\* Lines 83-114: the file read of the next reference of call c settles and
\* the reference is resolved against categoriesCache as it is then.
ConvertResolves(c) ==
  /\ res[c].pc = "resolving"
  /\ res[c].next <= Len(arg[c])
  /\ LET link == arg[c][res[c].next].ref
         r == ResolveBacklinkUrl(link, "https://example.com", categoriesCache)
     IN  res' = [res EXCEPT
                   ![c].next = @ + 1,
                   ![c].resolutions =
                      Append(@, [link |-> link, against |-> categoriesCache.data,
                                 ok |-> r.ok, url |-> r.url])]
  /\ UNCHANGED << categoriesCache, sharedRest >>

\* Lines 117-123: every reference is processed; the call returns.
ConvertReturns(c) ==
  /\ res[c].pc = "resolving"
  /\ res[c].next > Len(arg[c])
  /\ res' = [res EXCEPT ![c].pc = "returned"]
  /\ UNCHANGED << categoriesCache, sharedRest >>

NextShared ==
  \E c \in Callers :
    \/ ConvertStarts(c)
    \/ ConvertFetched(c)
    \/ ConvertResolves(c)
    \/ ConvertReturns(c)

SpecShared == InitShared /\ [][NextShared]_vars

\* The reference names a published post.
IsPostReference(link) ==
  /\ TargetExists(link)
  /\ DetectContentType(TargetFrontmatter(link)) = "post"

\* C23: every Post reference a convertBacklinks call has processed was
\* resolved against the category list that call's own request returned.
C23_ResolvedAgainstOwnList ==
  \A c \in Callers :
    \A i \in 1..Len(res[c].resolutions) :
      IsPostReference(res[c].resolutions[i].link) =>
        res[c].resolutions[i].against = res[c].fetched

\* ------------------------------------------------------------------------
\* Function model: one Post frontmatter and one category list given to
\* both buildPostPayload (as the document published) and
\* buildPostUrlWithDebug (as the target of a reference in another
\* document); every category request returns the list.

PendingBoth ==
  [built |-> FALSE, payload |-> Thrown(Pending, Absent, << >>),
   linked |-> FALSE, link |-> Failed(Pending)]

InitBoth ==
  /\ CommandsIdle
  /\ arg \in PayloadInputs
  /\ res = PendingBoth

\* buildPostPayload(frontmatter, body, fileName, api)
BuildForPublish ==
  /\ ~res.built
  /\ res' = [res EXCEPT !.built = TRUE,
                        !.payload = BuildPostPayload(arg.frontmatter, arg.remote, arg.remote)]
  /\ UNCHANGED << arg, commandVars >>

\* buildPostUrlWithDebug(frontmatter, siteUrl, linkName, debug) with the
\* list in categoriesCache.
BuildForLink ==
  /\ ~res.linked
  /\ res' = [res EXCEPT !.linked = TRUE,
                        !.link = BuildPostUrl(arg.frontmatter, "https://example.com",
                                              [loaded |-> TRUE, data |-> arg.remote])]
  /\ UNCHANGED << arg, commandVars >>

NextBoth == BuildForPublish \/ BuildForLink

SpecBoth == InitBoth /\ [][NextBoth]_vars

\* C24: when both the payload and the URL are built from a frontmatter, the
\* category slug in the URL is the slug of the category whose id the
\* payload submits.
C24_SameCategoryInUrlAndPayload ==
  res.built /\ res.linked /\ res.payload.ok /\ res.link.ok =>
    \E i \in 1..Len(arg.remote) :
      /\ arg.remote[i].id = res.payload.categoryId
      /\ arg.remote[i].slug = res.link.url[3]

\* ------------------------------------------------------------------------
\* Two publishCurrent invocations on the same document.  Each runs the
\* steps of the command model on its own locals, kept per invocation in
\* res.inv; fm and categoriesCache are shared.  res.writes is the sequence
\* of write-backs performed, res.issued the object ids the remote has
\* handed out to creates.

Invocations == {"first", "second"}

NotInvoked == [pc |-> "idle", snap |-> NoSnap, calls |-> << >>, failure |-> "none"]

\* The documents of this model: not yet published, or published as o1.
OverlapDocuments ==
  { f \in Frontmatters :
      /\ f.oid \in {Absent, "o1"}
      /\ f.categoryId \in {Absent, "c1"}
      /\ f.id = Absent /\ f.slug = Absent /\ f.updated = Absent /\ f.title = Absent }

\* What the invocations leave alone.
overlapRest == << arg, publishVars, deleteVars, metaVars >>

InitOverlap ==
  /\ pc = "idle"
  /\ snap = NoSnap
  /\ calls = << >>
  /\ backlinkErrors = 0
  /\ failure = "none"
  /\ categoriesCache = [loaded |-> FALSE, data |-> << >>]
  /\ modal = "closed"
  /\ delSnap = NoDelSnap
  /\ delLog = << >>
  /\ MetadataIdle
  /\ fm \in OverlapDocuments
  /\ arg = Unused
  /\ res = [inv |-> [i \in Invocations |-> NotInvoked], writes |-> << >>, issued |-> {}]

\* Lines 410-428 for invocation i: nothing looks at whether another
\* invocation is running.
InvocationReads(i) ==
  /\ res.inv[i].pc = "idle"
  /\ res' = [res EXCEPT ![
       "inv"][i] = [pc |-> "converting",
                    snap |-> [frontmatter |-> fm,
                              contentType |-> DetectContentType(fm),
                              existingId |-> fm["oid"],
                              isUpdate |-> Truthy(fm["oid"])],
                    calls |-> << >>, failure |-> "none"]]
  /\ UNCHANGED << fm, categoriesCache, overlapRest >>

\* Lines 431-447 for invocation i.
InvocationConverts(i) ==
  /\ res.inv[i].pc = "converting"
  /\ \E siteUrl \in SiteUrls, body \in Bodies, fetched \in GetCategories(RemoteCategories) :
       LET cache == [loaded |-> TRUE, data |-> fetched]
           r == ConvertBacklinks(body, siteUrl, cache)
       IN  /\ categoriesCache' = cache
           /\ res' = IF BacklinksBlock(Len(r.errors))
                       THEN [res EXCEPT !["inv"][i].pc = "failed",
                                        !["inv"][i].failure = "backlinks"]
                       ELSE [res EXCEPT !["inv"][i].pc = "building"]
  /\ UNCHANGED << fm, overlapRest >>

\* Lines 449-455 and 465-471 for invocation i.
InvocationSubmits(i) ==
  /\ res.inv[i].pc = "building"
  /\ LET me == res.inv[i]
     IN  IF me.snap.contentType = "note"
           THEN res' = [res EXCEPT !["inv"][i].pc = "awaiting",
                                   !["inv"][i].calls =
                                      Append(@, Request("Note", me.snap, Absent, Absent))]
           ELSE \E lookup \in GetCategories(RemoteCategories),
                   listing \in GetCategories(RemoteCategories) :
                  LET p == BuildPostPayload(me.snap.frontmatter, lookup, listing)
                  IN  res' = IF p.ok
                               THEN [res EXCEPT !["inv"][i].pc = "awaiting",
                                                !["inv"][i].calls =
                                                   Append(@, Request("Post", me.snap,
                                                                     p.categoryId, p.slug))]
                               ELSE [res EXCEPT !["inv"][i].pc = "failed",
                                                !["inv"][i].failure = p.error.kind]
  /\ UNCHANGED << fm, categoriesCache, overlapRest >>

\* The ids a response to `call` can carry in this model: an update answers
\* with the object it addressed, a create with an object not handed out
\* before.
FreshResponseIds(call, issued, f) ==
  IF call.id \in Oids THEN {call.id} ELSE Oids \ (issued \cup {f["oid"]})

\* The request of invocation i settles: the catch of line 483, or the
\* write-back of lines 457-462 / 473-479 on the frontmatter as it is then.
InvocationSettles(i) ==
  /\ res.inv[i].pc = "awaiting"
  /\ LET me == res.inv[i]
         call == me.calls[Len(me.calls)]
     IN  \/ /\ res' = [res EXCEPT !["inv"][i].pc = OnRequestFailed(me.calls).pc,
                                  !["inv"][i].calls = OnRequestFailed(me.calls).calls,
                                  !["inv"][i].failure = "remote"]
            /\ fm' = fm
         \/ \E oid \in FreshResponseIds(call, res.issued, fm) :
              LET updates == IF me.snap.contentType = "note" THEN NoteUpdates(oid)
                             ELSE PostUpdates(oid, call.slug, call.categoryId)
              IN  /\ fm' = UpdateFrontmatter(fm, updates)
                  /\ res' = [res EXCEPT !["inv"][i].pc = "done",
                                        !.writes = Append(@, [by |-> i, updates |-> updates]),
                                        !.issued = @ \cup {oid}]
  /\ UNCHANGED << categoriesCache, overlapRest >>

NextOverlap ==
  \E i \in Invocations :
    \/ InvocationReads(i)
    \/ InvocationConverts(i)
    \/ InvocationSubmits(i)
    \/ InvocationSettles(i)

SpecOverlap == InitOverlap /\ [][NextOverlap]_vars

\* Both invocations have ended.
BothFinished == \A i \in Invocations : res.inv[i].pc \in {"done", "failed"}

\* C25: of two publish invocations on one document neither is held up by
\* the other (each one that has not ended can take its next step), each
\* issues at most one remote create or update, exactly one once it has
\* reached submission, and when both have ended the frontmatter holds
\* every value of the write-back performed last.
C25_OverlapLastWriteWins ==
  /\ \A i \in Invocations :
       /\ res.inv[i].pc = "idle" => ENABLED InvocationReads(i)
       /\ res.inv[i].pc = "converting" => ENABLED InvocationConverts(i)
       /\ res.inv[i].pc = "building" => ENABLED InvocationSubmits(i)
       /\ res.inv[i].pc = "awaiting" => ENABLED InvocationSettles(i)
       /\ Len(res.inv[i].calls) <= 1
       /\ res.inv[i].pc \in {"awaiting", "done"} => Len(res.inv[i].calls) = 1
       /\ res.inv[i].pc \in {"idle", "converting", "building"} => res.inv[i].calls = << >>
  /\ BothFinished /\ res.writes # << >> =>
       LET last == res.writes[Len(res.writes)].updates
       IN  \A k \in DOMAIN last : fm[k] = last[k]

\* Both invocations read the unpublished document before either wrote
\* back, both created an object, and the frontmatter holds the id of the
\* second write-back, not that of the first.
C25_Witness ==
  /\ BothFinished
  /\ \A i \in Invocations : res.inv[i].pc = "done" /\ ~res.inv[i].snap.isUpdate
  /\ Len(res.writes) = 2
  /\ fm["oid"] = res.writes[2].updates["oid"]
  /\ fm["oid"] # res.writes[1].updates["oid"]

\* ------------------------------------------------------------------------
\* Further properties of the command model.

\* C26: a step of a publish invocation changes the frontmatter only when
\* its request succeeded; backlink errors, a payload error and a rejected
\* request each end the invocation as failed, caught inside publishCurrent,
\* with the frontmatter as it was, and a failed invocation then returns.
C26_FailedPublishWritesNothing ==
  [][/\ pc' # pc /\ fm' # fm => pc = "awaiting" /\ pc' = "done"
     /\ pc = "converting" /\ pc' \notin {"converting", "building"} =>
          pc' = "failed" /\ failure' = "backlinks" /\ fm' = fm
     /\ pc = "building" /\ pc' \notin {"building", "awaiting"} =>
          /\ pc' = "failed" /\ fm' = fm
          /\ failure' \in {"CategoryNotFound", "MissingCategory"}
     /\ pc = "awaiting" /\ pc' \notin {"awaiting", "done"} =>
          pc' = "failed" /\ failure' = "remote" /\ fm' = fm
     /\ pc = "failed" => pc' \in {"failed", "idle"}]_vars

\* A post whose category lookup failed: the invocation ended as failed and
\* the frontmatter is the one it read.
C26_Witness ==
  /\ pc = "failed" /\ failure = "CategoryNotFound"
  /\ fm = snap.frontmatter
  /\ fm["categories"] = "tech"

\* ------------------------------------------------------------------------
\* The life of one document: it is published, edited, republished,
\* unlinked and deleted, by up to two publish invocations at a time.  fm
\* has the keys the classifier and the write-back use.  res.inv holds, per
\* publish invocation, where it stands and the content type it computed
\* when it read the document; res.first is the content type of the first
\* successful publish, res.routed the collections that requests classified
\* after it were sent to, res.overlapped whether a publish invocation was
\* ever started while another was running.

LifeKeys ==
  {"oid", "id", "slug", "categoryId", "updated", "type", "categories",
   "mood", "weather", "topicId"}

\* The fields the user edits in this model, and their values.
LifeFields == {"categories", "categoryId", "mood", "weather", "topicId"}

LifeValues(k) ==
  IF k = "categories" THEN {Absent, "tech"}
  ELSE IF k = "categoryId" THEN {Absent, "c1"}
  ELSE IF k = "mood" THEN {Absent, "happy"}
  ELSE IF k = "weather" THEN {Absent, "sunny"}
  ELSE {Absent, "topic1"}

\* A document never published: no synchronization key, any type key.
NewDocuments ==
  [oid : {Absent}, id : {Absent}, slug : {Absent}, updated : {Absent},
   type : {Absent, "post", "note"},
   categories : LifeValues("categories"), categoryId : LifeValues("categoryId"),
   mood : LifeValues("mood"), weather : LifeValues("weather"),
   topicId : LifeValues("topicId")]

NotRunning == [pc |-> "idle", contentType |-> "note"]

InitLife ==
  /\ pc = "idle"
  /\ snap = NoSnap
  /\ calls = << >>
  /\ backlinkErrors = 0
  /\ failure = "none"
  /\ categoriesCache = [loaded |-> FALSE, data |-> << >>]
  /\ modal = "closed"
  /\ delSnap = NoDelSnap
  /\ delLog = << >>
  /\ MetadataIdle
  /\ fm \in NewDocuments
  /\ arg = Unused
  /\ res = [inv |-> [i \in Invocations |-> NotRunning],
            first |-> Absent, routed |-> {}, overlapped |-> FALSE]

\* What was routed since the first successful publish.
Routed(collection) ==
  IF res.first = Absent THEN res.routed ELSE res.routed \cup {collection}

\* publishCurrent lines 424-428 for invocation i: the document is read and
\* classified; its request goes to the collection of that content type.
LifePublishReads(i) ==
  /\ res.inv[i].pc = "idle"
  /\ res' = [res EXCEPT
               !.inv[i] = [pc |-> "awaiting", contentType |-> DetectContentType(fm)],
               !.routed = Routed(DetectContentType(fm)),
               !.overlapped = @ \/ \E j \in Invocations \ {i} : res.inv[j].pc # "idle"]
  /\ UNCHANGED << fm, arg, publishVars, categoriesCache, deleteVars, metaVars >>

\* Lines 439-447 and 483-486: the invocation ends without a write-back.
LifePublishFails(i) ==
  /\ res.inv[i].pc = "awaiting"
  /\ res' = [res EXCEPT !.inv[i] = NotRunning]
  /\ UNCHANGED << fm, arg, publishVars, categoriesCache, deleteVars, metaVars >>

\* Lines 457-462 and 473-479: the request succeeded and the write-back
\* stores the content type computed at the start as the type key.
LifePublishWrites(i) ==
  /\ res.inv[i].pc = "awaiting"
  /\ fm' = UpdateFrontmatter(fm,
             IF res.inv[i].contentType = "note" THEN NoteUpdates("o1")
             ELSE PostUpdates("o1", "custom", "c1"))
  /\ res' = [res EXCEPT
               !.inv[i] = NotRunning,
               !.first = IF @ = Absent THEN res.inv[i].contentType ELSE @]
  /\ UNCHANGED << arg, publishVars, categoriesCache, deleteVars, metaVars >>

\* The user edits a category, mood, weather or topic field.
LifeEdit ==
  /\ \E k \in LifeFields :
       \E v \in LifeValues(k) :
         /\ v # fm[k]
         /\ fm' = [fm EXCEPT ![k] = v]
  /\ UNCHANGED << res, arg, publishVars, categoriesCache, deleteVars, metaVars >>

\* unlinkFromMixSpace lines 608-626 on a linked document.
LifeUnlink ==
  /\ Truthy(fm["oid"])
  /\ fm' = ClearMixSpaceFrontmatter(fm)
  /\ UNCHANGED << res, arg, publishVars, categoriesCache, deleteVars, metaVars >>

\* deleteFromMixSpace lines 564-594 on a linked document, confirmed and
\* successful: the delete goes to the collection of the content type
\* computed from the frontmatter, then the keys are cleared.
LifeDelete ==
  /\ Truthy(fm["oid"])
  /\ res' = [res EXCEPT !.routed = Routed(DetectContentType(fm))]
  /\ fm' = ClearMixSpaceFrontmatter(fm)
  /\ UNCHANGED << arg, publishVars, categoriesCache, deleteVars, metaVars >>

NextLife ==
  \/ \E i \in Invocations :
       \/ LifePublishReads(i)
       \/ LifePublishFails(i)
       \/ LifePublishWrites(i)
  \/ LifeEdit
  \/ LifeUnlink
  \/ LifeDelete

SpecLife == InitLife /\ [][NextLife]_vars

\* The document classifies as its first successful publish did, and every
\* request classified since then went to that collection.
ClassifiedAsFirst ==
  /\ DetectContentType(fm) = res.first
  /\ res.routed \subseteq {res.first}

\* C27 as stated: once the document has been published successfully, it
\* classifies as that first publish did whatever the edits of its category,
\* mood, weather and topic fields (the type key is never edited here), and
\* its updates and deletes go to the collection of its create.
C27_TypeSticks == res.first # Absent => ClassifiedAsFirst

\* C27, amended: the same, for documents whose publish invocations never
\* overlapped.
C27_TypeSticksWithoutOverlap ==
  res.first # Absent /\ ~res.overlapped => ClassifiedAsFirst

\* A document first published as a note was given a category afterwards,
\* unlinked, and a later request for it went to the notes.
C27_Witness ==
  /\ res.first = "note" /\ ~res.overlapped
  /\ fm["categories"] = "tech" /\ fm["oid"] = Absent
  /\ res.routed = {"note"}

\* ------------------------------------------------------------------------
\* A Post document that is published again and again, with its categories
\* field edited, and unlinked or deleted in between.  res.stored is the
\* categoryId the last write-back stored, as long as it has not been
\* removed; res.storedAtRead is that value as the running invocation found
\* it; res.call is the request of the running invocation.

PostKeys == {"oid", "slug", "categoryId", "updated", "type", "categories"}

\* The categories values of this model name two different existing
\* categories of RemoteCategories: "tech" is c1 by slug, "t" is c2 by slug.
CategoryNames == {"tech", "t"}

NewPosts ==
  [oid : {Absent}, slug : {Absent}, updated : {Absent}, type : {"post"},
   categoryId : {Absent, "c2"}, categories : {Absent} \cup CategoryNames]

NoCall == [op |-> "none", id |-> Absent, categoryId |-> Absent, slug |-> Absent]

InitRepublish ==
  /\ pc = "idle"
  /\ snap = NoSnap
  /\ calls = << >>
  /\ backlinkErrors = 0
  /\ failure = "none"
  /\ categoriesCache = [loaded |-> FALSE, data |-> << >>]
  /\ modal = "closed"
  /\ delSnap = NoDelSnap
  /\ delLog = << >>
  /\ MetadataIdle
  /\ fm \in NewPosts
  /\ arg = Unused
  /\ res = [pc |-> "idle", snap |-> NoSnap, call |-> NoCall,
            stored |-> Absent, storedAtRead |-> Absent, published |-> FALSE]

\* What these actions leave alone.
republishRest == << arg, publishVars, categoriesCache, deleteVars, metaVars >>

\* publishCurrent lines 424-428.
RepublishReads ==
  /\ res.pc = "idle"
  /\ res' = [res EXCEPT !.pc = "building",
                        !.snap = [frontmatter |-> fm,
                                  contentType |-> DetectContentType(fm),
                                  existingId |-> fm["oid"],
                                  isUpdate |-> Truthy(fm["oid"])],
                        !.call = NoCall,
                        !.storedAtRead = res.stored]
  /\ UNCHANGED << fm, republishRest >>

\* Lines 465-471: buildPostPayload, then createPost / updatePost; a payload
\* error ends the invocation.
RepublishSubmits ==
  /\ res.pc = "building"
  /\ \E lookup \in GetCategories(RemoteCategories),
        listing \in GetCategories(RemoteCategories) :
       LET p == BuildPostPayload(res.snap.frontmatter, lookup, listing)
       IN  res' = IF p.ok
                    THEN [res EXCEPT !.pc = "awaiting",
                                     !.call = Request("Post", res.snap, p.categoryId, p.slug)]
                    ELSE [res EXCEPT !.pc = "idle"]
  /\ UNCHANGED << fm, republishRest >>

\* Lines 473-479 and 483-486: the request fails, or the response, which
\* carries the categoryId the remote was sent, is written back.
RepublishSettles ==
  /\ res.pc = "awaiting"
  /\ \/ /\ res' = [res EXCEPT !.pc = "idle"]
        /\ fm' = fm
     \/ \E oid \in ResponseIds(res.call) :
          /\ fm' = UpdateFrontmatter(fm, PostUpdates(oid, res.call.slug, res.call.categoryId))
          /\ res' = [res EXCEPT !.pc = "idle", !.stored = res.call.categoryId,
                                !.published = TRUE]
  /\ UNCHANGED republishRest

\* The user changes the categories field.
RepublishEditsCategories ==
  /\ \E v \in ({Absent} \cup CategoryNames) \ {fm["categories"]} :
       fm' = [fm EXCEPT !["categories"] = v]
  /\ UNCHANGED << res, republishRest >>

\* unlinkFromMixSpace, or deleteFromMixSpace confirmed and successful, on a
\* linked document: clearMixSpaceFrontmatter removes the categoryId.
RepublishClears ==
  /\ Truthy(fm["oid"])
  /\ fm' = ClearMixSpaceFrontmatter(fm)
  /\ res' = [res EXCEPT !.stored = Absent]
  /\ UNCHANGED republishRest

NextRepublish ==
  \/ RepublishReads
  \/ RepublishSubmits
  \/ RepublishSettles
  \/ RepublishEditsCategories
  \/ RepublishClears

SpecRepublish == InitRepublish /\ [][NextRepublish]_vars

\* The categoryId of the running invocation's request comes from the
\* categories value of the frontmatter it read.
CategoriesConsulted ==
  /\ res.call.categoryId # Absent
  /\ ~Truthy(res.snap.frontmatter["categoryId"])
  /\ res.call.categoryId \in IdsBySlug(RemoteCategories, res.snap.frontmatter["categories"])
                               \cup IdsByName(RemoteCategories, res.snap.frontmatter["categories"])

\* C28: a publish that finds a categoryId stored by the previous write-back
\* submits that categoryId whatever the categories field says, and a
\* request whose categoryId comes from the categories value is issued only
\* when no stored categoryId was there.
C28_StoredCategoryIdWins ==
  res.pc = "awaiting" =>
    /\ res.storedAtRead # Absent => res.call.categoryId = res.storedAtRead
    /\ CategoriesConsulted => res.storedAtRead = Absent

\* A post published under c1 whose categories field was changed to name
\* c2 is published again, and its request carries c1.
C28_Witness ==
  /\ res.pc = "awaiting"
  /\ res.storedAtRead = "c1"
  /\ res.snap.frontmatter["categories"] = "t"
  /\ res.call.categoryId = "c1"

\* ------------------------------------------------------------------------
\* One ConfirmDeleteModal, from the moment deleteFromMixSpace has opened
\* it.  arg is what onConfirm captured (the oid and content type of line
\* 564-572); res.shown tells whether the modal is on screen, res.isDeleting
\* is its field, res.running the number of onConfirm calls that have not
\* settled, res.issued the remote deletes issued from it and res.deleted
\* whether one of them succeeded.

\* The linked documents a modal is opened for.
LinkedDocuments ==
  { f \in Frontmatters :
      /\ Truthy(f.oid)
      /\ f.id = Absent /\ f.slug = Absent /\ f.updated = Absent /\ f.title = Absent
      /\ f.categoryId \in {Absent, "c1"} }

Opened ==
  [shown |-> TRUE, isDeleting |-> FALSE, running |-> 0, issued |-> << >>,
   deleted |-> FALSE]

InitModal ==
  /\ pc = "idle"
  /\ snap = NoSnap
  /\ calls = << >>
  /\ backlinkErrors = 0
  /\ failure = "none"
  /\ categoriesCache = [loaded |-> FALSE, data |-> << >>]
  /\ modal = "closed"
  /\ delSnap = NoDelSnap
  /\ delLog = << >>
  /\ MetadataIdle
  /\ fm \in LinkedDocuments
  /\ arg = [oid |-> fm["oid"], contentType |-> DetectContentType(fm)]
  /\ res = Opened

\* What the modal leaves alone.
modalRest == << arg, publishVars, categoriesCache, deleteVars, metaVars >>

\* A handler that runs onConfirm on every click.
ClickRunsAlways(isDeleting) == TRUE

\* Modal line 48: if (this.isDeleting) return
ClickRuns(isDeleting) == ~isDeleting

\* Modal lines 47-54 and main.ts 577-588: a click on Delete; unless it is
\* ignored, isDeleting is set and onConfirm issues the remote delete.
ModalClickDelete ==
  /\ res.shown
  /\ Len(res.issued) < MaxDeleteTries
  /\ res' = IF ClickRuns(res.isDeleting)
              THEN [res EXCEPT !.isDeleting = TRUE,
                               !.running = @ + 1,
                               !.issued = Append(@, DeleteRequest(arg))]
              ELSE res
  /\ UNCHANGED << fm, modalRest >>

\* main.ts 590-594 and modal line 55: the delete succeeded, the keys are
\* cleared and the modal closes; isDeleting stays set.
ModalDeleteSucceeds ==
  /\ res.running > 0
  /\ fm' = ClearMixSpaceFrontmatter(fm)
  /\ res' = [res EXCEPT !.running = @ - 1, !.shown = FALSE, !.deleted = TRUE]
  /\ UNCHANGED modalRest

\* main.ts 595-601 and modal lines 56-60: the delete failed, the error is
\* rethrown and the modal re-arms its button.
ModalDeleteFails ==
  /\ res.running > 0
  /\ res' = [res EXCEPT !.running = @ - 1, !.isDeleting = FALSE]
  /\ UNCHANGED << fm, modalRest >>

\* Modal lines 39-41: Cancel (or closing the modal) at any time.
ModalCancel ==
  /\ res.shown
  /\ res' = [res EXCEPT !.shown = FALSE]
  /\ UNCHANGED << fm, modalRest >>

NextModal ==
  \/ ModalClickDelete
  \/ ModalDeleteSucceeds
  \/ ModalDeleteFails
  \/ ModalCancel

SpecModal == InitModal /\ [][NextModal]_vars

\* C29: at most one onConfirm call of the modal is running; while one is
\* running Delete clicks are ignored; when the modal is on screen and none
\* is running the button is armed; after a successful delete the modal is
\* closed and no further delete is issued from it.
C29_OneDeleteInFlight ==
  /\ [](/\ res.running <= 1
        /\ res.running = 1 => res.isDeleting
        /\ res.shown /\ res.running = 0 => ~res.isDeleting
        /\ res.deleted => ~res.shown /\ res.isDeleting)
  /\ [][/\ res.running = 1 => res'.issued = res.issued
        /\ res.deleted => res'.issued = res.issued]_vars

\* A first delete failed, the button was re-armed, and the retry is
\* running: two deletes were issued from the modal, one after the other.
C29_Witness ==
  /\ res.shown /\ res.isDeleting /\ res.running = 1
  /\ Len(res.issued) = 2
  /\ res.issued[2] = DeleteRequest(arg)

\* ------------------------------------------------------------------------
\* drySync on one document.  arg is the frontmatter as the command found
\* it, calls the remote requests the invocation has made, res where it
\* stands with what it read, the number of backlink errors and the payload.

Fetching == [op |-> "getCategories", id |-> Absent, categoryId |-> Absent, slug |-> Absent]

DryIdle ==
  [pc |-> "idle", snap |-> NoSnap, errors |-> 0, payload |-> Thrown(Pending, Absent, << >>)]

InitDry ==
  /\ pc = "idle"
  /\ snap = NoSnap
  /\ calls = << >>
  /\ backlinkErrors = 0
  /\ failure = "none"
  /\ categoriesCache = [loaded |-> FALSE, data |-> << >>]
  /\ modal = "closed"
  /\ delSnap = NoDelSnap
  /\ delLog = << >>
  /\ MetadataIdle
  /\ fm \in Frontmatters
  /\ arg = fm
  /\ res = DryIdle

\* What drySync leaves alone besides the document.
dryRest == << arg, pc, snap, backlinkErrors, failure, deleteVars, metaVars >>

\* Lines 491-505: without an active file the command returns; otherwise
\* the document is read, parsed and classified.
DryReads ==
  /\ res.pc = "idle"
  /\ \E hasFile \in BOOLEAN :
       res' = IF hasFile
                THEN [res EXCEPT !.pc = "converting",
                                 !.snap = [frontmatter |-> fm,
                                           contentType |-> DetectContentType(fm),
                                           existingId |-> fm["oid"],
                                           isUpdate |-> Truthy(fm["oid"])]]
                ELSE [res EXCEPT !.pc = "skipped"]
  /\ UNCHANGED << fm, calls, categoriesCache, dryRest >>

\* Lines 508-512: convertBacklinks fetches the categories and converts the
\* body; its errors are kept for the preview and stop nothing.
DryConverts ==
  /\ res.pc = "converting"
  /\ \E siteUrl \in SiteUrls, body \in Bodies, fetched \in GetCategories(RemoteCategories) :
       LET cache == [loaded |-> TRUE, data |-> fetched]
           r == ConvertBacklinks(body, siteUrl, cache)
       IN  /\ categoriesCache' = cache
           /\ res' = [res EXCEPT !.pc = "building", !.errors = Len(r.errors)]
  /\ calls' = Append(calls, Fetching)
  /\ UNCHANGED << fm, dryRest >>

\* The category requests buildPostPayload makes (payload.ts 91-98): one for
\* the lookup when the categories value is consulted, one more for the
\* error message when it matches nothing.
LookupRequests(f, p) ==
  IF Truthy(DirectCategoryId(f)) \/ ~Truthy(Get(f, "categories")) THEN << >>
  ELSE IF p.ok THEN << Fetching >>
  ELSE << Fetching, Fetching >>

\* Lines 514-517 and 536-538: the payload is built; an error of
\* buildPostPayload is caught and shown as a notice.
DryBuilds ==
  /\ res.pc = "building"
  /\ IF res.snap.contentType = "note"
       THEN /\ res' = [res EXCEPT !.pc = "previewing",
                                  !.payload = [ok |-> TRUE, categoryId |-> Absent,
                                               slug |-> Absent, error |-> NoError]]
            /\ calls' = calls
       ELSE \E lookup \in GetCategories(RemoteCategories),
               listing \in GetCategories(RemoteCategories) :
              LET p == BuildPostPayload(res.snap.frontmatter, lookup, listing)
              IN  /\ res' = [res EXCEPT !.pc = IF p.ok THEN "previewing" ELSE "failed",
                                        !.payload = p]
                  /\ calls' = calls \o LookupRequests(res.snap.frontmatter, p)
  /\ UNCHANGED << fm, categoriesCache, dryRest >>

\* A preview that sends the payload it shows.
DryPreviewSubmits(s, p) ==
  << Request(IF s.contentType = "note" THEN "Note" ELSE "Post", s, p.categoryId, p.slug) >>

\* Lines 519-535: the requests made once the payload is built: none, the
\* DrySyncModal is opened with the payload and the endpoint as text.
DryPreview(s, p) == << >>

\* Lines 519-535: the preview opens.
DryShows ==
  /\ res.pc = "previewing"
  /\ res' = [res EXCEPT !.pc = "shown"]
  /\ calls' = calls \o DryPreview(res.snap, res.payload)
  /\ UNCHANGED << fm, categoriesCache, dryRest >>

NextDry == DryReads \/ DryConverts \/ DryBuilds \/ DryShows

SpecDry == InitDry /\ [][NextDry]_vars

\* C30: whatever the document and the outcome, every remote request of a
\* drySync invocation is a category fetch, never a create, update or
\* delete, and the frontmatter stays as the command found it.
C30_DrySyncReadsOnly ==
  /\ \A i \in 1..Len(calls) : calls[i].op = "getCategories"
  /\ delLog = << >>
  /\ fm = arg

\* The preview of a published post was shown although a backlink failed
\* and its category had to be looked up.
C30_Witness ==
  /\ res.pc = "shown" /\ res.errors > 0
  /\ res.snap.isUpdate /\ res.snap.contentType = "post"
  /\ Len(calls) = 2

====
